---- MODULE Spec2Model ----
(***************************************************************************)
(* Model of the event-stream persistence core:                             *)
(*   - the ClickHouse migration runner (Migrator: Up, Down, DownAll,       *)
(*     Status) with its ledger table schema_migrations,                    *)
(*   - the two event-store adapters (PostgreSQL row store, ClickHouse      *)
(*     column store): Save, SaveBatch, GetMetrics.                         *)
(* Strings whose content the code inspects (SQL scripts, versions) are     *)
(* sequences of one-character strings / digits.                            *)
(***************************************************************************)
EXTENDS Integers, Sequences, FiniteSets, TLC

VARIABLES
    migrations,     \* Migrator.migrations: the sorted slice built by loadMigrations
    tableExists,    \* whether the ledger table schema_migrations exists in the store
    ledger,         \* rows of schema_migrations: [version, name, deleting]
    storeExecuted,  \* migration statements the store has executed successfully
    mig,            \* per migrator process: the call in progress
    prev,           \* per migrator process: the call that returned last
    adapter,        \* the event store main() selected: "postgres" | "clickhouse"
    rows,           \* committed rows of table events
    nextId,         \* IDs issued so far + 1 (uuid.New() never repeats an ID)
    issued,         \* the IDs handed to events so far, in the order they were issued
    w,              \* the batch writer: the CreateEvents / SaveBatch call in progress
    rd,             \* the metrics reader: the GetMetrics call in progress
    saved,          \* events saved with all their fields, each with its stored row
    main,           \* the process: how far main() has come
    script          \* a migration script and what splitStatements made of it

migVars == <<migrations, tableExists, ledger, storeExecuted, mig, prev>>

storeVars == <<adapter, rows, nextId, issued, w, rd, saved>>

vars == <<migVars, storeVars, main, script>>

(***************************************************************************)
(* String helpers (package strings), over sequences of characters.         *)
(***************************************************************************)
WhiteSpace == {" ", "\n", "\t"}

RECURSIVE TrimLeft(_)
TrimLeft(s) ==
    IF s # <<>> /\ Head(s) \in WhiteSpace THEN TrimLeft(Tail(s)) ELSE s

RECURSIVE TrimRight(_)
TrimRight(s) ==
    IF s # <<>> /\ s[Len(s)] \in WhiteSpace
    THEN TrimRight(SubSeq(s, 1, Len(s) - 1))
    ELSE s

TrimSpace(s) == TrimRight(TrimLeft(s))

HasPrefix(s, pre) ==
    Len(s) >= Len(pre) /\ SubSeq(s, 1, Len(pre)) = pre

HasSuffix(s, suf) ==
    Len(s) >= Len(suf) /\ SubSeq(s, Len(s) - Len(suf) + 1, Len(s)) = suf

Contains(s, sub) ==
    \E k \in 1..(Len(s) - Len(sub) + 1) : SubSeq(s, k, k + Len(sub) - 1) = sub

TrimSuffix(s, suf) ==
    IF HasSuffix(s, suf) THEN SubSeq(s, 1, Len(s) - Len(suf)) ELSE s

\* strings.Split(s, "\n"): the lines of s, always at least one
RECURSIVE SplitLines(_, _, _)
SplitLines(s, k, cur) ==
    IF k > Len(s) THEN <<cur>>
    ELSE IF s[k] = "\n" THEN <<cur>> \o SplitLines(s, k + 1, <<>>)
    ELSE SplitLines(s, k + 1, Append(cur, s[k]))

(***************************************************************************)
(* splitStatements: the statements of a migration script.                  *)
(***************************************************************************)
FlushStatement(statements, current) ==
    LET stmt == TrimSuffix(TrimSpace(current), <<";">>)
    IN  IF stmt # <<>> THEN Append(statements, stmt) ELSE statements

RECURSIVE SplitLoop(_, _, _, _, _)
SplitLoop(lines, k, statements, current, inComment) ==
    IF k > Len(lines)
    THEN \* handle last statement without semicolon
         IF TrimSpace(current) # <<>>
         THEN Append(statements, TrimSpace(current))
         ELSE statements
    ELSE LET line    == lines[k]
             trimmed == TrimSpace(line)
         IN  IF trimmed = <<>> \/ HasPrefix(trimmed, <<"-", "-">>)
             THEN SplitLoop(lines, k + 1, statements, current, inComment)
             ELSE IF Contains(trimmed, <<"*", "/">>)
             THEN SplitLoop(lines, k + 1, statements, current, FALSE)
             ELSE IF inComment \/ Contains(trimmed, <<"/", "*">>)
             THEN SplitLoop(lines, k + 1, statements, current, TRUE)
             ELSE LET cur2 == current \o line \o <<"\n">>
                  IN  IF HasSuffix(trimmed, <<";">>)
                      THEN SplitLoop(lines, k + 1,
                                     FlushStatement(statements, cur2), <<>>, FALSE)
                      ELSE SplitLoop(lines, k + 1, statements, cur2, FALSE)

splitStatements(sql) == SplitLoop(SplitLines(sql, 1, <<>>), 1, <<>>, <<>>, FALSE)

\* the loop body's "stmt = strings.TrimSpace(stmt); if stmt == "" { continue }"
Executable(stmts) == SelectSeq([k \in 1..Len(stmts) |-> TrimSpace(stmts[k])],
                               LAMBDA s : s # <<>>)

\* no script has been handed to splitStatements
NoScript == [sql |-> <<>>, lines |-> 0, split |-> FALSE, statements |-> <<>>]

MaxLines == 3    \* lines of a script handed to splitStatements

\* lines a migration script is written from: statements ending a line, a
\* statement going on, two statements on one line, a -- comment, a blank
\* line, the opening and the closing line of a /* */ comment, an empty
\* statement, an indented statement
ScriptLines ==
    { <<"a", ";">>, <<"b">>, <<"a", ";", "b", ";">>, <<"-", "-", "c">>, <<>>,
      <<"/", "*", "c">>, <<"c", "*", "/">>, <<"a", ";", ";">>, <<" ", "b", ";">> }

\* the author of a migration file writes its next line
WriteLine(line) ==
    /\ ~script.split /\ script.lines < MaxLines
    /\ script' = [script EXCEPT
                     !.sql = IF script.lines = 0 THEN line ELSE @ \o <<"\n">> \o line,
                     !.lines = @ + 1]
    /\ UNCHANGED <<migVars, storeVars, main>>

\* Up / Down / DownAll: "statements := splitStatements(migration.UpSQL)"
SplitScript ==
    /\ ~script.split
    /\ script' = [script EXCEPT !.split = TRUE, !.statements = splitStatements(script.sql)]
    /\ UNCHANGED <<migVars, storeVars, main>>

(***************************************************************************)
(* The migration files the binary embeds, and loadMigrations.              *)
(***************************************************************************)
NoFile == <<>>   \* a direction without a file leaves UpSQL / DownSQL == ""

\* "-- c\nA;\n\nB;\n"
UpTwo == <<"-", "-", " ", "c", "\n", "A", ";", "\n", "\n", "B", ";", "\n">>
\* "A;"
UpOne == <<"A", ";">>
\* "X;\n/* c */\nY"
DownTwo == <<"X", ";", "\n", "/", "*", " ", "c", " ", "*", "/", "\n", "Y">>
\* "X;"
DownOne == <<"X", ";">>

UpContents == {NoFile, UpOne, UpTwo}
DownContents == {NoFile, DownOne, DownTwo}

MaxMigrations == 2   \* <version>_<name> keys among the embedded files

\* <version>_<name> keys; versions are zero-padded digit strings 01, 02, ...
Keys == { [Version |-> <<0, k>>, Name |-> <<"m", k>>] : k \in 1..MaxMigrations }

\* string comparison of two versions (Go's < on strings)
RECURSIVE LexLess(_, _)
LexLess(a, b) ==
    IF b = <<>> THEN FALSE
    ELSE IF a = <<>> THEN TRUE
    ELSE IF Head(a) # Head(b) THEN Head(a) < Head(b)
    ELSE LexLess(Tail(a), Tail(b))

\* sort.Slice(m.migrations, Version less)
RECURSIVE SortByVersion(_)
SortByVersion(S) ==
    IF S = {} THEN <<>>
    ELSE LET least == CHOOSE x \in S : \A y \in S \ {x} : ~LexLess(y.Version, x.Version)
         IN  <<least>> \o SortByVersion(S \ {least})

\* the migrationMap of loadMigrations: one Migration per key that has a file
MigrationMaps ==
    { { [Version |-> k.Version, Name |-> k.Name, UpSQL |-> f[k].up, DownSQL |-> f[k].down]
          : k \in { x \in Keys : f[x].up # NoFile \/ f[x].down # NoFile } }
      : f \in [Keys -> [up : UpContents, down : DownContents]] }

\* faulty variant: the less function reversed
RECURSIVE SortDescending(_)
SortDescending(S) ==
    IF S = {} THEN <<>>
    ELSE LET most == CHOOSE x \in S : \A y \in S \ {x} : ~LexLess(x.Version, y.Version)
         IN  <<most>> \o SortDescending(S \ {most})

loadMigrations_Descending(migrationMap) == SortDescending(migrationMap)

loadMigrations(migrationMap) == SortByVersion(migrationMap)

(***************************************************************************)
(* Ledger (table schema_migrations).                                       *)
(***************************************************************************)
\* rows not hit by a delete mutation
Live(rs) == SelectSeq(rs, LAMBDA r : ~r.deleting)

Versions(rs) == { rs[k].version : k \in 1..Len(rs) }

MutationPending == \E k \in 1..Len(ledger) : ledger[k].deleting

(***************************************************************************)
(* Migrator calls.  mig[p] is the position of process p inside a call:     *)
(*   op       "Up" | "Down" | "DownAll" | "Status" | "none"                *)
(*   pc       "idle" | "ensure" | "read" | "loop" | "exec" | "sleep" |     *)
(*            "done"                                                       *)
(*   applied  the version set getAppliedMigrations returned                *)
(*   i        index into m.migrations of the migration being handled       *)
(*   stmts, j the statements of that migration's script, the next one      *)
(*   result   "none" | "ok" | "err"                                        *)
(*   err      which step produced the error returned ("" when none)        *)
(*   trace    the store calls the migration loop has issued so far         *)
(*   ledger0  the live ledger rows when the call started                   *)
(*   statuses the value Status returns                                     *)
(***************************************************************************)
Procs == {"m1", "m2"}

Ops == {"Up", "Down", "DownAll", "Status"}

IdleCall == [op |-> "none", pc |-> "idle", applied |-> {}, i |-> 0, stmts |-> <<>>,
             j |-> 0, result |-> "none", err |-> "", trace |-> <<>>, ledger0 |-> <<>>,
             statuses |-> <<>>]

Direction(op) == IF op = "Up" THEN "up" ELSE "down"

ExecEvent(version, stmt, ok) ==
    [kind |-> "exec", version |-> version, stmt |-> stmt, ok |-> ok]

LedgerEvent(kind, version, ok) ==
    [kind |-> kind, version |-> version, stmt |-> <<>>, ok |-> ok]

\* the call returns err
Fail(c, what) == [c EXCEPT !.pc = "done", !.result = "err", !.err = what]

\* the call returns nil
Succeed(c) == [c EXCEPT !.pc = "done", !.result = "ok"]

\* a caller invokes Up / Down / DownAll / Status
Call(p, op) ==
    /\ mig[p].pc = "idle"
    /\ mig' = [mig EXCEPT ![p] = [IdleCall EXCEPT !.op = op, !.pc = "ensure",
                                                  !.ledger0 = Live(ledger)]]
    /\ UNCHANGED <<migrations, tableExists, ledger, storeExecuted, prev, storeVars, main, script>>

\* CREATE TABLE IF NOT EXISTS schema_migrations
ensureMigrationTable(p) ==
    /\ mig[p].pc = "ensure"
    /\ \E ok \in BOOLEAN :
         IF ok
         THEN /\ tableExists' = TRUE
              /\ mig' = [mig EXCEPT ![p].pc = "read"]
         ELSE /\ mig' = [mig EXCEPT ![p] = Fail(@, "ensure")]
              /\ UNCHANGED tableExists
    /\ UNCHANGED <<migrations, ledger, storeExecuted, prev, storeVars, main, script>>

\* SELECT version FROM schema_migrations
getAppliedMigrations(p) ==
    /\ mig[p].pc = "read"
    /\ \E ok \in BOOLEAN :
         IF ok /\ tableExists
         THEN mig' = [mig EXCEPT ![p].pc = "loop",
                                 ![p].applied = Versions(ledger),
                                 ![p].i = IF mig[p].op \in {"Up", "Status"}
                                          THEN 1 ELSE Len(migrations)]
         ELSE mig' = [mig EXCEPT ![p] = Fail(@, "read")]
    /\ UNCHANGED <<migrations, tableExists, ledger, storeExecuted, prev, storeVars, main, script>>

\* faulty variant: Up without "if applied[migration.Version] { continue }"
UpNext_NoSkip(p) ==
    LET c == mig[p] IN
    /\ c.pc = "loop" /\ c.op = "Up"
    /\ IF c.i > Len(migrations)
       THEN mig' = [mig EXCEPT ![p] = Succeed(@)]
       ELSE IF migrations[c.i].UpSQL = <<>>
       THEN mig' = [mig EXCEPT ![p].i = c.i + 1]
       ELSE mig' = [mig EXCEPT ![p].pc = "exec", ![p].j = 1,
                               ![p].stmts = Executable(splitStatements(migrations[c.i].UpSQL))]
    /\ UNCHANGED <<migrations, tableExists, ledger, storeExecuted, prev, storeVars, main, script>>

\* Up: the head of "for _, migration := range m.migrations"
UpNext(p) ==
    LET c == mig[p] IN
    /\ c.pc = "loop" /\ c.op = "Up"
    /\ IF c.i > Len(migrations)
       THEN mig' = [mig EXCEPT ![p] = Succeed(@)]
       ELSE IF migrations[c.i].Version \in c.applied \/ migrations[c.i].UpSQL = <<>>
       THEN mig' = [mig EXCEPT ![p].i = c.i + 1]
       ELSE mig' = [mig EXCEPT ![p].pc = "exec", ![p].j = 1,
                               ![p].stmts = Executable(splitStatements(migrations[c.i].UpSQL))]
    /\ UNCHANGED <<migrations, tableExists, ledger, storeExecuted, prev, storeVars, main, script>>

\* faulty variant: the statement loop logs a failed statement and goes on
ExecStatement_IgnoreError(p) ==
    LET c == mig[p] IN
    /\ c.pc = "exec" /\ c.j <= Len(c.stmts)
    /\ \E ok \in BOOLEAN :
         LET ev == ExecEvent(migrations[c.i].Version, c.stmts[c.j], ok) IN
         /\ mig' = [mig EXCEPT ![p].j = c.j + 1, ![p].trace = Append(@, ev)]
         /\ storeExecuted' = IF ok
                             THEN storeExecuted \cup
                                    {<<migrations[c.i].Version, Direction(c.op), c.stmts[c.j]>>}
                             ELSE storeExecuted
    /\ UNCHANGED <<migrations, tableExists, ledger, prev, storeVars, main, script>>

\* ExecWithContext(ctx, m.db, stmt) inside the statement loop of Up / Down / DownAll
ExecStatement(p) ==
    LET c == mig[p] IN
    /\ c.pc = "exec" /\ c.j <= Len(c.stmts)
    /\ \E ok \in BOOLEAN :
         LET ev == ExecEvent(migrations[c.i].Version, c.stmts[c.j], ok) IN
         IF ok
         THEN /\ mig' = [mig EXCEPT ![p].j = c.j + 1, ![p].trace = Append(@, ev)]
              /\ storeExecuted' = storeExecuted \cup
                     {<<migrations[c.i].Version, Direction(c.op), c.stmts[c.j]>>}
         ELSE /\ mig' = [mig EXCEPT ![p] = Fail([@ EXCEPT !.trace = Append(@, ev)], "exec")]
              /\ UNCHANGED storeExecuted
    /\ UNCHANGED <<migrations, tableExists, ledger, prev, storeVars, main, script>>

\* INSERT INTO schema_migrations (version, name), after the last statement of an up-script
recordMigration(p) ==
    LET c == mig[p] IN
    /\ c.pc = "exec" /\ c.j > Len(c.stmts) /\ c.op = "Up"
    /\ \E ok \in BOOLEAN :
         LET ev == LedgerEvent("record", migrations[c.i].Version, ok) IN
         IF ok
         THEN /\ ledger' = Append(ledger, [version  |-> migrations[c.i].Version,
                                           name     |-> migrations[c.i].Name,
                                           deleting |-> FALSE])
              /\ mig' = [mig EXCEPT ![p].pc = "loop", ![p].i = c.i + 1,
                                    ![p].trace = Append(@, ev)]
         ELSE /\ mig' = [mig EXCEPT ![p] = Fail([@ EXCEPT !.trace = Append(@, ev)], "record")]
              /\ UNCHANGED ledger
    /\ UNCHANGED <<migrations, tableExists, storeExecuted, prev, storeVars, main, script>>

\* faulty variant: the search runs from the first migration, not the last
DownFind_First(p) ==
    LET c     == mig[p]
        hits  == { k \in 1..Len(migrations) : migrations[k].Version \in c.applied }
        first == CHOOSE k \in hits : \A h \in hits : k <= h
    IN
    /\ c.pc = "loop" /\ c.op = "Down"
    /\ IF hits = {}
       THEN mig' = [mig EXCEPT ![p] = Succeed(@)]
       ELSE IF migrations[first].DownSQL = <<>>
       THEN mig' = [mig EXCEPT ![p] = Fail([@ EXCEPT !.i = first], "no down migration")]
       ELSE mig' = [mig EXCEPT ![p].pc = "exec", ![p].i = first, ![p].j = 1,
                               ![p].stmts = Executable(splitStatements(migrations[first].DownSQL))]
    /\ UNCHANGED <<migrations, tableExists, ledger, storeExecuted, prev, storeVars, main, script>>

\* faulty variant: no check for an empty down-script
DownFind_NoDownCheck(p) ==
    LET c    == mig[p]
        hits == { k \in 1..Len(migrations) : migrations[k].Version \in c.applied }
        last == CHOOSE k \in hits : \A h \in hits : h <= k
    IN
    /\ c.pc = "loop" /\ c.op = "Down"
    /\ IF hits = {}
       THEN mig' = [mig EXCEPT ![p] = Succeed(@)]
       ELSE mig' = [mig EXCEPT ![p].pc = "exec", ![p].i = last, ![p].j = 1,
                               ![p].stmts = Executable(splitStatements(migrations[last].DownSQL))]
    /\ UNCHANGED <<migrations, tableExists, ledger, storeExecuted, prev, storeVars, main, script>>

\* faulty variant: with nothing applied, the newest discovered migration is rolled back
DownFind_Always(p) ==
    LET c    == mig[p]
        hits == { k \in 1..Len(migrations) : migrations[k].Version \in c.applied }
        last == IF hits = {} THEN Len(migrations)
                ELSE CHOOSE k \in hits : \A h \in hits : h <= k
    IN
    /\ c.pc = "loop" /\ c.op = "Down"
    /\ IF last = 0
       THEN mig' = [mig EXCEPT ![p] = Succeed(@)]
       ELSE IF migrations[last].DownSQL = <<>>
       THEN mig' = [mig EXCEPT ![p] = Fail([@ EXCEPT !.i = last], "no down migration")]
       ELSE mig' = [mig EXCEPT ![p].pc = "exec", ![p].i = last, ![p].j = 1,
                               ![p].stmts = Executable(splitStatements(migrations[last].DownSQL))]
    /\ UNCHANGED <<migrations, tableExists, ledger, storeExecuted, prev, storeVars, main, script>>

\* Down: "Find the last applied migration" up to the start of its statement loop
DownFind(p) ==
    LET c    == mig[p]
        hits == { k \in 1..Len(migrations) : migrations[k].Version \in c.applied }
        last == CHOOSE k \in hits : \A h \in hits : h <= k
    IN
    /\ c.pc = "loop" /\ c.op = "Down"
    /\ IF hits = {}
       THEN mig' = [mig EXCEPT ![p] = Succeed(@)]
       ELSE IF migrations[last].DownSQL = <<>>
       THEN mig' = [mig EXCEPT ![p] = Fail([@ EXCEPT !.i = last], "no down migration")]
       ELSE mig' = [mig EXCEPT ![p].pc = "exec", ![p].i = last, ![p].j = 1,
                               ![p].stmts = Executable(splitStatements(migrations[last].DownSQL))]
    /\ UNCHANGED <<migrations, tableExists, ledger, storeExecuted, prev, storeVars, main, script>>

\* faulty variant: DownAll returns after the first migration it rolled back
DownAllNext_StopAfterOne(p) ==
    LET c == mig[p] IN
    /\ c.pc = "loop" /\ c.op = "DownAll"
    /\ IF c.i < 1 \/ c.trace # <<>>
       THEN mig' = [mig EXCEPT ![p].pc = "sleep"]
       ELSE IF migrations[c.i].Version \notin c.applied
       THEN mig' = [mig EXCEPT ![p].i = c.i - 1]
       ELSE IF migrations[c.i].DownSQL = <<>>
       THEN mig' = [mig EXCEPT ![p] = Fail(@, "no down migration")]
       ELSE mig' = [mig EXCEPT ![p].pc = "exec", ![p].j = 1,
                               ![p].stmts = Executable(splitStatements(migrations[c.i].DownSQL))]
    /\ UNCHANGED <<migrations, tableExists, ledger, storeExecuted, prev, storeVars, main, script>>

\* faulty variant: DownAll without the check for an empty down-script
DownAllNext_NoDownCheck(p) ==
    LET c == mig[p] IN
    /\ c.pc = "loop" /\ c.op = "DownAll"
    /\ IF c.i < 1
       THEN mig' = [mig EXCEPT ![p].pc = "sleep"]
       ELSE IF migrations[c.i].Version \notin c.applied
       THEN mig' = [mig EXCEPT ![p].i = c.i - 1]
       ELSE mig' = [mig EXCEPT ![p].pc = "exec", ![p].j = 1,
                               ![p].stmts = Executable(splitStatements(migrations[c.i].DownSQL))]
    /\ UNCHANGED <<migrations, tableExists, ledger, storeExecuted, prev, storeVars, main, script>>

\* DownAll: the head of "for i := len(m.migrations) - 1; i >= 0; i--"
DownAllNext(p) ==
    LET c == mig[p] IN
    /\ c.pc = "loop" /\ c.op = "DownAll"
    /\ IF c.i < 1
       THEN mig' = [mig EXCEPT ![p].pc = "sleep"]
       ELSE IF migrations[c.i].Version \notin c.applied
       THEN mig' = [mig EXCEPT ![p].i = c.i - 1]
       ELSE IF migrations[c.i].DownSQL = <<>>
       THEN mig' = [mig EXCEPT ![p] = Fail(@, "no down migration")]
       ELSE mig' = [mig EXCEPT ![p].pc = "exec", ![p].j = 1,
                               ![p].stmts = Executable(splitStatements(migrations[c.i].DownSQL))]
    /\ UNCHANGED <<migrations, tableExists, ledger, storeExecuted, prev, storeVars, main, script>>

\* ALTER TABLE schema_migrations DELETE WHERE version = ?: the store accepts a
\* mutation over the rows it holds now and applies it in the background
removeMigrationRecord(p) ==
    LET c == mig[p] IN
    /\ c.pc = "exec" /\ c.j > Len(c.stmts) /\ c.op \in {"Down", "DownAll"}
    /\ \E ok \in BOOLEAN :
         LET ev == LedgerEvent("remove", migrations[c.i].Version, ok) IN
         IF ok
         THEN /\ ledger' = [k \in 1..Len(ledger) |->
                              IF ledger[k].version = migrations[c.i].Version
                              THEN [ledger[k] EXCEPT !.deleting = TRUE]
                              ELSE ledger[k]]
              /\ mig' = [mig EXCEPT ![p].trace = Append(@, ev),
                                    ![p].pc = IF c.op = "Down" THEN "sleep" ELSE "loop",
                                    ![p].i = IF c.op = "Down" THEN c.i ELSE c.i - 1]
         ELSE /\ mig' = [mig EXCEPT ![p] = Fail([@ EXCEPT !.trace = Append(@, ev)], "remove")]
              /\ UNCHANGED ledger
    /\ UNCHANGED <<migrations, tableExists, storeExecuted, prev, storeVars, main, script>>

\* time.Sleep(100 * time.Millisecond), then return nil
Sleep(p) ==
    /\ mig[p].pc = "sleep"
    /\ mig' = [mig EXCEPT ![p] = Succeed(@)]
    /\ UNCHANGED <<migrations, tableExists, ledger, storeExecuted, prev, storeVars, main, script>>

\* Status: build one MigrationStatus per discovered migration
StatusBuild(p) ==
    LET c == mig[p] IN
    /\ c.pc = "loop" /\ c.op = "Status"
    /\ mig' = [mig EXCEPT ![p] = Succeed([@ EXCEPT !.statuses =
                 [k \in 1..Len(migrations) |->
                    [Version |-> migrations[k].Version,
                     Name    |-> migrations[k].Name,
                     Applied |-> migrations[k].Version \in c.applied]]])]
    /\ UNCHANGED <<migrations, tableExists, ledger, storeExecuted, prev, storeVars, main, script>>

\* the caller has the call's result; the process is free for the next call
Return(p) ==
    /\ mig[p].pc = "done"
    /\ prev' = [prev EXCEPT ![p] = [op |-> mig[p].op, result |-> mig[p].result]]
    /\ mig' = [mig EXCEPT ![p] = IdleCall]
    /\ UNCHANGED <<migrations, tableExists, ledger, storeExecuted, storeVars, main, script>>

\* the store finishes a pending ALTER TABLE ... DELETE mutation
MutationApplied ==
    /\ MutationPending
    /\ ledger' = Live(ledger)
    /\ UNCHANGED <<migrations, tableExists, storeExecuted, mig, prev, storeVars, main, script>>

(***************************************************************************)
(* Event stores.  An event carries the columns the metrics queries read;   *)
(* nan says that one of its Param.NumberValue is NaN, which json.Marshal   *)
(* (row-store toModel) rejects.  Times are [day, hour]; the zero time.Time *)
(* is day 0.                                                               *)
(***************************************************************************)
MaxBatch == 2    \* longest command list handed to CreateEvents / SaveBatch
MaxIds == 3      \* IDs issued in one run

ZeroTime == [day |-> 0, hour |-> 0]

IsZero(t) == t = ZeroTime

TimeLE(a, b) == a.day < b.day \/ (a.day = b.day /\ a.hour <= b.hour)

EventPool ==
    { [Name |-> "page_view", ChannelType |-> "web",    UserID |-> "u1",
       Date |-> [day |-> 1, hour |-> 0], nan |-> FALSE],
      [Name |-> "page_view", ChannelType |-> "mobile", UserID |-> "u2",
       Date |-> [day |-> 1, hour |-> 1], nan |-> FALSE],
      [Name |-> "page_view", ChannelType |-> "web",    UserID |-> "u1",
       Date |-> [day |-> 2, hour |-> 0], nan |-> FALSE],
      [Name |-> "click",     ChannelType |-> "web",    UserID |-> "u2",
       Date |-> [day |-> 1, hour |-> 0], nan |-> TRUE] }

CommandLists == UNION { [1..n -> EventPool] : n \in 0..MaxBatch }

\* CreateEventCommand.ToEvent(id)
ToEvent(cmd, id) ==
    [ID |-> id, Name |-> cmd.Name, ChannelType |-> cmd.ChannelType,
     UserID |-> cmd.UserID, Date |-> cmd.Date, nan |-> cmd.nan]

\* row-store toModel fails when json.Marshal does; column-store toModel cannot fail
toModelFails(event) == adapter = "postgres" /\ event.nan

toModel(event) ==
    [id |-> event.ID, name |-> event.Name, channel_type |-> event.ChannelType,
     user_id |-> event.UserID, date |-> event.Date]

(***************************************************************************)
(* The batch writer.  w is the CreateEvents / SaveBatch call in progress:  *)
(*   api       "CreateEvents" | "SaveBatch" | "none"                       *)
(*   pc        "idle" | "getdb" | "begin" | "schema" | "insert" | "done"   *)
(*   events    the batch;  k  the next event to insert                     *)
(*   tx        rows inserted in the open row-store transaction             *)
(*   result    "none" | "ok" | "err";  ids  what CreateEvents returns      *)
(*   io        the store interactions of the call so far, <<what, ok>>     *)
(*   repoCalls how often the service called the repository                 *)
(*   rows0     the committed rows when the call started                    *)
(*   cmds      the commands the call was given                             *)
(*   cancelled whether the caller has cancelled the call's ctx             *)
(***************************************************************************)
IdleW == [api |-> "none", pc |-> "idle", cmds |-> <<>>, events |-> <<>>, k |-> 0,
          tx |-> <<>>, result |-> "none", ids |-> <<>>, io |-> <<>>, repoCalls |-> 0,
          rows0 |-> {}, cancelled |-> FALSE]

\* faulty variant: SaveBatch without the empty-list return
SaveBatchEntry_NoEmptyCheck(c) == [c EXCEPT !.pc = "getdb", !.k = 1]

\* EventRepository.SaveBatch, both adapters: "if len(events) == 0 { return nil }"
SaveBatchEntry(c) ==
    IF Len(c.events) = 0
    THEN [c EXCEPT !.pc = "done", !.result = "ok"]
    ELSE [c EXCEPT !.pc = "getdb", !.k = 1]

\* faulty variant: uuid.New() is called once, before the loop over cmds
CreateEvents_OneId(cmds) ==
    /\ w.pc = "idle"
    /\ nextId + Len(cmds) - 1 <= MaxIds
    /\ IF Len(cmds) = 0
       THEN /\ w' = [IdleW EXCEPT !.api = "CreateEvents", !.pc = "done", !.result = "ok",
                                  !.cmds = cmds, !.rows0 = rows]
            /\ UNCHANGED <<nextId, issued>>
       ELSE LET ids == [k \in 1..Len(cmds) |-> nextId] IN
            /\ w' = SaveBatchEntry([IdleW EXCEPT
                        !.api = "CreateEvents", !.ids = ids, !.repoCalls = 1, !.cmds = cmds,
                        !.events = [k \in 1..Len(cmds) |-> ToEvent(cmds[k], ids[k])],
                        !.rows0 = rows])
            /\ nextId' = nextId + 1
            /\ issued' = issued \o ids
    /\ UNCHANGED <<adapter, rows, rd, saved, migVars, main, script>>

\* EventService.CreateEvents(ctx, cmds) up to the first store interaction
CreateEvents(cmds) ==
    /\ w.pc = "idle"
    /\ nextId + Len(cmds) - 1 <= MaxIds
    /\ IF Len(cmds) = 0
       THEN w' = [IdleW EXCEPT !.api = "CreateEvents", !.pc = "done", !.result = "ok",
                               !.cmds = cmds, !.rows0 = rows]
       ELSE LET ids == [k \in 1..Len(cmds) |-> nextId + k - 1] IN
            w' = SaveBatchEntry([IdleW EXCEPT
                     !.api = "CreateEvents", !.ids = ids, !.repoCalls = 1, !.cmds = cmds,
                     !.events = [k \in 1..Len(cmds) |-> ToEvent(cmds[k], ids[k])],
                     !.rows0 = rows])
    /\ nextId' = nextId + Len(cmds)
    /\ issued' = issued \o [k \in 1..Len(cmds) |-> nextId + k - 1]
    /\ UNCHANGED <<adapter, rows, rd, saved, migVars, main, script>>

\* a caller of the port invokes EventRepository.SaveBatch(ctx, events) itself
SaveBatch(cmds) ==
    /\ w.pc = "idle"
    /\ nextId + Len(cmds) - 1 <= MaxIds
    /\ w' = SaveBatchEntry([IdleW EXCEPT
                !.api = "SaveBatch", !.cmds = cmds,
                !.events = [k \in 1..Len(cmds) |-> ToEvent(cmds[k], nextId + k - 1)],
                !.rows0 = rows])
    /\ nextId' = nextId + Len(cmds)
    /\ issued' = issued \o [k \in 1..Len(cmds) |-> nextId + k - 1]
    /\ UNCHANGED <<adapter, rows, rd, saved, migVars, main, script>>

\* the outcomes of a store call: a call that was given the caller's ctx fails
\* once that ctx is cancelled; a call on a context the helper derives from
\* context.Background() does not see the cancellation
Outcomes(callerCtx, cancelled) == IF callerCtx /\ cancelled THEN {FALSE} ELSE BOOLEAN

WFail(c, what) == [c EXCEPT !.pc = "done", !.result = "err", !.io = Append(@, <<what, FALSE>>)]

\* Transaction / BatchInsert: db.getDB()
WriterGetDB ==
    /\ w.pc = "getdb"
    /\ \E ok \in BOOLEAN :
         w' = IF ok THEN [w EXCEPT !.pc = "begin", !.io = Append(@, <<"getDB", TRUE>>)]
              ELSE WFail(w, "getDB")
    /\ UNCHANGED <<adapter, rows, nextId, issued, rd, saved, migVars, main, script>>

\* sqlxDB.BeginTxx(ctx, nil)
WriterBegin ==
    /\ w.pc = "begin"
    /\ \E ok \in BOOLEAN :
         w' = IF ok
              THEN [w EXCEPT !.pc = IF adapter = "postgres" THEN "schema" ELSE "insert",
                             !.io = Append(@, <<"begin", TRUE>>)]
              ELSE WFail(w, "begin")
    /\ UNCHANGED <<adapter, rows, nextId, issued, rd, saved, migVars, main, script>>

\* tx.Rollback() of the row store discards what the transaction inserted
RollbackPg(c) == [c EXCEPT !.tx = <<>>, !.io = Append(@, <<"rollback", TRUE>>)]

\* Transaction: SET search_path TO public inside the transaction (row store)
WriterSetSchema ==
    /\ w.pc = "schema" /\ adapter = "postgres"
    /\ \E ok \in BOOLEAN :
         w' = IF ok THEN [w EXCEPT !.pc = "insert", !.io = Append(@, <<"schema", TRUE>>)]
              ELSE RollbackPg(WFail(w, "schema"))
    /\ UNCHANGED <<adapter, rows, nextId, issued, rd, saved, migVars, main, script>>

\* faulty variant: the inserts run on the pool (auto-commit), not on the transaction
InsertPg_AutoCommit ==
    /\ w.pc = "insert" /\ adapter = "postgres" /\ w.k <= Len(w.events)
    /\ \E ok \in BOOLEAN :
         IF toModelFails(w.events[w.k])
         THEN /\ w' = RollbackPg(WFail(w, "toModel"))
              /\ UNCHANGED rows
         ELSE IF ok
         THEN /\ rows' = rows \cup {toModel(w.events[w.k])}
              /\ w' = [w EXCEPT !.k = w.k + 1, !.io = Append(@, <<"exec", TRUE>>)]
         ELSE /\ w' = RollbackPg(WFail(w, "exec"))
              /\ UNCHANGED rows
    /\ UNCHANGED <<adapter, nextId, issued, rd, saved, migVars, main, script>>

\* row store: one pass of "for _, event := range events" inside the transaction;
\* the insert runs on the caller's ctx (tx.NamedExecContext(ctx, ...))
InsertPg ==
    /\ w.pc = "insert" /\ adapter = "postgres" /\ w.k <= Len(w.events)
    /\ \E ok \in Outcomes(TRUE, w.cancelled) :
         w' = IF toModelFails(w.events[w.k])
              THEN RollbackPg(WFail(w, "toModel"))
              ELSE IF ok
              THEN [w EXCEPT !.k = w.k + 1, !.tx = Append(@, toModel(w.events[w.k])),
                             !.io = Append(@, <<"exec", TRUE>>)]
              ELSE RollbackPg(WFail(w, "exec"))
    /\ UNCHANGED <<adapter, rows, nextId, issued, rd, saved, migVars, main, script>>

\* row store: tx.Commit() makes the transaction's rows visible, all at once
CommitPg ==
    /\ w.pc = "insert" /\ adapter = "postgres" /\ w.k > Len(w.events)
    /\ \E ok \in BOOLEAN :
         IF ok
         THEN /\ rows' = rows \cup { w.tx[k] : k \in 1..Len(w.tx) }
              /\ w' = [w EXCEPT !.pc = "done", !.result = "ok", !.tx = <<>>,
                                !.io = Append(@, <<"commit", TRUE>>)]
         ELSE /\ w' = [WFail(w, "commit") EXCEPT !.tx = <<>>]
              /\ UNCHANGED rows
    /\ UNCHANGED <<adapter, nextId, issued, rd, saved, migVars, main, script>>

\* faulty variant: the column store holds the inserts back until the commit
InsertCh_Transactional ==
    /\ w.pc = "insert" /\ adapter = "clickhouse" /\ w.k <= Len(w.events)
    /\ \E ok \in BOOLEAN :
         w' = IF ok
              THEN [w EXCEPT !.k = w.k + 1, !.tx = Append(@, toModel(w.events[w.k])),
                             !.io = Append(@, <<"exec", TRUE>>)]
              ELSE [WFail(w, "exec") EXCEPT !.tx = <<>>, !.io = Append(@, <<"rollback", TRUE>>)]
    /\ UNCHANGED <<adapter, rows, nextId, issued, rd, saved, migVars, main, script>>

\* faulty variant: a failed insert is compensated by deleting the batch's rows
InsertCh_DeleteOnFailure ==
    /\ w.pc = "insert" /\ adapter = "clickhouse" /\ w.k <= Len(w.events)
    /\ \E ok \in BOOLEAN :
         IF ok
         THEN /\ rows' = rows \cup {toModel(w.events[w.k])}
              /\ w' = [w EXCEPT !.k = w.k + 1, !.io = Append(@, <<"exec", TRUE>>)]
         ELSE /\ w' = [WFail(w, "exec") EXCEPT !.io = Append(@, <<"rollback", TRUE>>)]
              /\ rows' = { r \in rows : \A k \in 1..Len(w.events) : r.id # w.events[k].ID }
    /\ UNCHANGED <<adapter, nextId, issued, rd, saved, migVars, main, script>>

\* column store: one pass of BatchInsert's "for _, item := range items"; the
\* engine applies an insert when it executes it, and tx.Rollback() undoes nothing
InsertCh ==
    /\ w.pc = "insert" /\ adapter = "clickhouse" /\ w.k <= Len(w.events)
    /\ \E ok \in BOOLEAN :
         IF ok
         THEN /\ rows' = rows \cup {toModel(w.events[w.k])}
              /\ w' = [w EXCEPT !.k = w.k + 1, !.io = Append(@, <<"exec", TRUE>>)]
         ELSE /\ w' = [WFail(w, "exec") EXCEPT !.io = Append(@, <<"rollback", TRUE>>)]
              /\ UNCHANGED rows
    /\ UNCHANGED <<adapter, nextId, issued, rd, saved, migVars, main, script>>

\* column store: BatchInsert's "return tx.Commit()"
CommitCh ==
    /\ w.pc = "insert" /\ adapter = "clickhouse" /\ w.k > Len(w.events)
    /\ \E ok \in BOOLEAN :
         w' = IF ok
              THEN [w EXCEPT !.pc = "done", !.result = "ok",
                             !.io = Append(@, <<"commit", TRUE>>)]
              ELSE WFail(w, "commit")
    /\ UNCHANGED <<adapter, rows, nextId, issued, rd, saved, migVars, main, script>>

\* the caller has the result
WriterReturn ==
    /\ w.pc = "done"
    /\ w' = IdleW
    /\ UNCHANGED <<adapter, rows, nextId, issued, rd, saved, migVars, main, script>>

\* another caller's CreateEvent: uuid.New(), ToEvent, repo.Save (one insert)
CreateEvent(cmd) ==
    /\ nextId <= MaxIds
    /\ nextId' = nextId + 1
    /\ issued' = Append(issued, nextId)
    /\ \E ok \in BOOLEAN :
         IF ok /\ ~toModelFails(ToEvent(cmd, nextId))
         THEN rows' = rows \cup {toModel(ToEvent(cmd, nextId))}
         ELSE UNCHANGED rows
    /\ UNCHANGED <<adapter, w, rd, saved, migVars, main, script>>

(***************************************************************************)
(* MetricsReader.GetMetrics.  A WHERE clause is its predicates, in the     *)
(* order they were appended, and the argument list; ph is the number of a  *)
(* row-store placeholder ($1, $2, ...), 0 for a column-store "?", which    *)
(* the driver binds by position.                                           *)
(***************************************************************************)
Aggregations == {"", "channel", "daily", "hourly", "weekly"}

Queries == [EventName : {"page_view", "click"},
            From : {ZeroTime, [day |-> 1, hour |-> 1], [day |-> 2, hour |-> 0]},
            To : {ZeroTime, [day |-> 1, hour |-> 1]},
            Aggregation : Aggregations]

Pred(col, cmp, ph) == [col |-> col, cmp |-> cmp, ph |-> ph]

\* faulty variant: the upper bound's placeholder is written as $2, not $argIndex
BuildWhere_FixedIndex(query) ==
    LET pg   == adapter = "postgres"
        base == [preds    |-> <<Pred("name", "=", IF pg THEN 1 ELSE 0)>>,
                 args     |-> <<query.EventName>>,
                 argIndex |-> 2]
        from == IF ~IsZero(query.From)
                THEN [preds    |-> Append(base.preds,
                                          Pred("date", ">=", IF pg THEN base.argIndex ELSE 0)),
                      args     |-> Append(base.args, query.From),
                      argIndex |-> base.argIndex + 1]
                ELSE base
    IN  IF ~IsZero(query.To)
        THEN [preds    |-> Append(from.preds, Pred("date", "<=", 2)),
              args     |-> Append(from.args, query.To),
              argIndex |-> from.argIndex]
        ELSE from

\* GetMetrics: "Build base WHERE clause"
BuildWhere(query) ==
    LET pg   == adapter = "postgres"
        base == [preds    |-> <<Pred("name", "=", IF pg THEN 1 ELSE 0)>>,
                 args     |-> <<query.EventName>>,
                 argIndex |-> 2]
        from == IF ~IsZero(query.From)
                THEN [preds    |-> Append(base.preds,
                                          Pred("date", ">=", IF pg THEN base.argIndex ELSE 0)),
                      args     |-> Append(base.args, query.From),
                      argIndex |-> base.argIndex + 1]
                ELSE base
    IN  IF ~IsZero(query.To)
        THEN [preds    |-> Append(from.preds,
                                  Pred("date", "<=", IF pg THEN from.argIndex ELSE 0)),
              args     |-> Append(from.args, query.To),
              argIndex |-> from.argIndex]
        ELSE from

\* the argument the store binds to the k-th predicate's placeholder
Bound(where, k) ==
    where.args[IF where.preds[k].ph = 0 THEN k ELSE where.preds[k].ph]

Holds(row, where, k) ==
    CASE where.preds[k].col = "name" -> row.name = Bound(where, k)
      [] where.preds[k].cmp = ">="   -> TimeLE(Bound(where, k), row.date)
      [] OTHER                       -> TimeLE(row.date, Bound(where, k))

\* FROM events WHERE ...
Filtered(table, where) ==
    { r \in table : \A k \in 1..Len(where.preds) : Holds(r, where, k) }

\* SELECT COUNT(*), COUNT(DISTINCT user_id)  /  count(), uniqExact(user_id)
TotalsQuery(table, where) ==
    LET F == Filtered(table, where) IN
    [TotalCount |-> Cardinality(F),
     UniqueUserCount |-> Cardinality({ r.user_id : r \in F })]

\* the ChannelType values in string order
ChannelOrder == <<"console", "desktop", "mobile", "other", "tv", "web">>

ChannelRank(c) == CHOOSE k \in 1..Len(ChannelOrder) : ChannelOrder[k] = c

\* getGroupedMetrics: the group expression of an aggregation
GroupValue(agg, row) ==
    CASE agg = "channel" -> row.channel_type
      [] agg = "daily"   -> row.date.day
      [] OTHER           -> row.date

\* faulty variant: ORDER BY the group expression, descending
GroupLess_Descending(agg, a, b) ==
    CASE agg = "channel" -> ChannelRank(a) > ChannelRank(b)
      [] agg = "daily"   -> a > b
      [] OTHER           -> a # b /\ TimeLE(b, a)

\* ORDER BY the group expression, ascending
GroupLess(agg, a, b) ==
    CASE agg = "channel" -> ChannelRank(a) < ChannelRank(b)
      [] agg = "daily"   -> a < b
      [] OTHER           -> a # b /\ TimeLE(a, b)

RECURSIVE SortGroups(_, _)
SortGroups(agg, keys) ==
    IF keys = {} THEN <<>>
    ELSE LET least == CHOOSE x \in keys : \A y \in keys \ {x} : GroupLess(agg, x, y)
         IN  <<least>> \o SortGroups(agg, keys \ {least})

\* faulty variant: a group's total_count counts distinct users, not rows
GroupedQuery_CountsUsers(table, where, agg) ==
    LET F      == Filtered(table, where)
        sorted == SortGroups(agg, { GroupValue(agg, r) : r \in F })
    IN  [k \in 1..Len(sorted) |->
           LET G == { r \in F : GroupValue(agg, r) = sorted[k] } IN
           [GroupKey |-> sorted[k],
            TotalCount |-> Cardinality({ r.user_id : r \in G }),
            UniqueUserCount |-> Cardinality({ r.user_id : r \in G })]]

\* SELECT <group>, COUNT(*), COUNT(DISTINCT user_id) ... GROUP BY <group> ORDER BY <group>
GroupedQuery(table, where, agg) ==
    LET F      == Filtered(table, where)
        sorted == SortGroups(agg, { GroupValue(agg, r) : r \in F })
    IN  [k \in 1..Len(sorted) |->
           LET G == { r \in F : GroupValue(agg, r) = sorted[k] } IN
           [GroupKey |-> sorted[k],
            TotalCount |-> Cardinality(G),
            UniqueUserCount |-> Cardinality({ r.user_id : r \in G })]]

(***************************************************************************)
(* rd is the GetMetrics call in progress:                                  *)
(*   pc "idle" | "grouped" | "done";  query, where;  result;               *)
(*   TotalCount, UniqueUserCount, GroupedMetrics: the MetricsResult;       *)
(*   groupedRan: whether the grouped query was issued;                     *)
(*   io: the queries the call has issued so far, <<what, ok>>;             *)
(*   cancelled: whether the caller has cancelled the call's ctx;           *)
(*   seenAtTotals, seenAtGrouped: how many rows the store held when the    *)
(*   totals query / the grouped query ran                                  *)
(***************************************************************************)
IdleR == [pc |-> "idle", query |-> [EventName |-> "", From |-> ZeroTime, To |-> ZeroTime,
                                    Aggregation |-> ""],
          where |-> [preds |-> <<>>, args |-> <<>>, argIndex |-> 0],
          result |-> "none", TotalCount |-> 0, UniqueUserCount |-> 0,
          GroupedMetrics |-> <<>>, groupedRan |-> FALSE, io |-> <<>>, cancelled |-> FALSE,
          seenAtTotals |-> 0, seenAtGrouped |-> 0]

\* faulty variant: GetMetrics returns the totals and never asks for the groups
GetMetrics_NeverGrouped(query) ==
    /\ rd.pc = "idle"
    /\ \E ok \in BOOLEAN :
         LET where  == BuildWhere(query)
             totals == TotalsQuery(rows, where)
             c      == [IdleR EXCEPT !.query = query, !.where = where,
                                     !.io = <<<<"totals", ok>>>>,
                                     !.seenAtTotals = Cardinality(rows)]
         IN  rd' = IF ~ok
                   THEN [c EXCEPT !.pc = "done", !.result = "err"]
                   ELSE [c EXCEPT !.pc = "done", !.result = "ok",
                                  !.TotalCount = totals.TotalCount,
                                  !.UniqueUserCount = totals.UniqueUserCount]
    /\ UNCHANGED <<adapter, rows, nextId, issued, w, saved, migVars, main, script>>

\* GetMetrics up to "Get grouped metrics if aggregation is specified"
GetMetrics(query) ==
    /\ rd.pc = "idle"
    /\ \E ok \in BOOLEAN :
         LET where  == BuildWhere(query)
             totals == TotalsQuery(rows, where)
             c      == [IdleR EXCEPT !.query = query, !.where = where,
                                     !.io = <<<<"totals", ok>>>>,
                                     !.seenAtTotals = Cardinality(rows)]
         IN  rd' = IF ~ok
                   THEN [c EXCEPT !.pc = "done", !.result = "err"]
                   ELSE IF query.Aggregation = ""
                   THEN [c EXCEPT !.pc = "done", !.result = "ok",
                                  !.TotalCount = totals.TotalCount,
                                  !.UniqueUserCount = totals.UniqueUserCount]
                   ELSE [c EXCEPT !.pc = "grouped",
                                  !.TotalCount = totals.TotalCount,
                                  !.UniqueUserCount = totals.UniqueUserCount]
    /\ UNCHANGED <<adapter, rows, nextId, issued, w, saved, migVars, main, script>>

\* getGroupedMetrics, and GetMetrics' return; the column store's grouped query
\* runs on the caller's ctx (SelectWithContext), the row store's does not (Select)
getGroupedMetrics ==
    /\ rd.pc = "grouped"
    /\ \E ok \in Outcomes(adapter = "clickhouse", rd.cancelled) :
         rd' = IF rd.query.Aggregation \notin {"channel", "daily", "hourly"}
               THEN [rd EXCEPT !.pc = "done", !.result = "ok"]
               ELSE IF ok
               THEN [rd EXCEPT !.pc = "done", !.result = "ok", !.groupedRan = TRUE,
                               !.io = Append(@, <<"grouped", TRUE>>),
                               !.seenAtGrouped = Cardinality(rows),
                               !.GroupedMetrics =
                                   GroupedQuery(rows, rd.where, rd.query.Aggregation)]
               ELSE [rd EXCEPT !.pc = "done", !.result = "err", !.groupedRan = TRUE,
                               !.io = Append(@, <<"grouped", FALSE>>),
                               !.seenAtGrouped = Cardinality(rows),
                               !.TotalCount = 0, !.UniqueUserCount = 0]
    /\ UNCHANGED <<adapter, rows, nextId, issued, w, saved, migVars, main, script>>

\* the caller has the result
ReaderReturn ==
    /\ rd.pc = "done"
    /\ rd' = IdleR
    /\ UNCHANGED <<adapter, rows, nextId, issued, w, saved, migVars, main, script>>

\* the caller cancels the ctx it passed to SaveBatch / CreateEvents
CancelWriter ==
    /\ w.pc \notin {"idle", "done"} /\ ~w.cancelled
    /\ w' = [w EXCEPT !.cancelled = TRUE]
    /\ UNCHANGED <<adapter, rows, nextId, issued, rd, saved, migVars, main, script>>

\* the caller cancels the ctx it passed to GetMetrics
CancelReader ==
    /\ rd.pc = "grouped" /\ ~rd.cancelled
    /\ rd' = [rd EXCEPT !.cancelled = TRUE]
    /\ UNCHANGED <<adapter, rows, nextId, issued, w, saved, migVars, main, script>>

(***************************************************************************)
(* The stored row with all its columns.  An Event here carries, next to    *)
(* the columns the metrics read, its EventParams and Items and the         *)
(* sub-second part of its Date; an Item.Quantity is a 64-bit int, kept as  *)
(* its high and low 32-bit words.  saved is the table of the store in use, *)
(* each row next to the Event it was made from.                            *)
(***************************************************************************)
MaxSaved == 2    \* events saved through EventRepository.Save in one run

\* domain.Param: one string-valued, one number-valued, one boolean-valued
ParamString == [Key |-> "k1", StringValue |-> "s", NumberValue |-> 0, BooleanValue |-> FALSE]
ParamNumber == [Key |-> "k2", StringValue |-> "",  NumberValue |-> 7, BooleanValue |-> FALSE]
ParamBool   == [Key |-> "k3", StringValue |-> "",  NumberValue |-> 0, BooleanValue |-> TRUE]

ParamLists == { <<>>, <<ParamString, ParamNumber, ParamBool>>,
                <<ParamBool, ParamNumber, ParamString>> }

\* domain.Item
Item(name, hi, loc, params) ==
    [ID |-> "i1", Name |-> name, Brand |-> "acme", Variant |-> "red",
     PriceInUsd |-> 10, Quantity |-> [hi |-> hi, lo |-> 1], RevenueInUsd |-> 20,
     LocationId |-> loc, Params |-> params]

ItemPool ==
    { Item("shoe", hi, loc, <<>>) : hi \in {0, 1}, loc \in {"", "loc1"} }
        \cup { Item("shoe", 0, "", <<ParamBool>>) }

ItemLists ==
    {<<>>} \cup { <<it>> : it \in ItemPool }
           \cup { <<Item("shoe", 0, "", <<>>), Item("hat", 0, "", <<>>)>>,
                  <<Item("hat", 0, "", <<>>), Item("shoe", 0, "", <<>>)>> }

\* domain.Event, the caller of the port chooses its ID
FullEvents ==
    [ID : {1}, Name : {"page_view"}, ChannelType : {"web"}, UserID : {"u1"},
     Date : [day : {1}, hour : {0}, nsec : {0, 500}], nan : {FALSE},
     Timestamp : {7}, PreviousTimestamp : {3},
     EventParams : ParamLists,
     UserParams : {<<>>, <<ParamNumber, ParamBool>>},
     Items : ItemLists]

\* int32(item.Quantity): the low 32 bits
int32(q) == q.lo

\* event.Date.Format("2006-01-02 15:04:05"): whole seconds, no zone
Format(t) == [day |-> t.day, hour |-> t.hour]

\* json.Marshal of a struct without tags: every exported field under its name
MarshalParam(p) ==
    <<<<"Key", p.Key>>, <<"StringValue", p.StringValue>>,
      <<"NumberValue", p.NumberValue>>, <<"BooleanValue", p.BooleanValue>>>>

MarshalParams(ps) == [i \in 1..Len(ps) |-> MarshalParam(ps[i])]

MarshalItem(it) ==
    <<<<"ID", it.ID>>, <<"Name", it.Name>>, <<"Brand", it.Brand>>,
      <<"Variant", it.Variant>>, <<"PriceInUsd", it.PriceInUsd>>,
      <<"Quantity", it.Quantity>>, <<"RevenueInUsd", it.RevenueInUsd>>,
      <<"LocationId", it.LocationId>>, <<"Params", MarshalParams(it.Params)>>>>

\* row store toModel: the list fields as JSON text
toModel_RowStore(event) ==
    [id |-> event.ID, name |-> event.Name, channel_type |-> event.ChannelType,
     user_id |-> event.UserID, date |-> event.Date,
     timestamp |-> event.Timestamp, previous_timestamp |-> event.PreviousTimestamp,
     event_params |-> MarshalParams(event.EventParams),
     user_params |-> MarshalParams(event.UserParams),
     items |-> [i \in 1..Len(event.Items) |-> MarshalItem(event.Items[i])]]

\* faulty variant: the boolean arrays are left at their zero value
boolToUInt8_Zero(b) == 0

\* "if p.BooleanValue { ...BooleanValues[i] = 1 }" over a zeroed []uint8
boolToUInt8(b) == IF b THEN 1 ELSE 0

\* column store toModel: the list fields as parallel arrays
toModel_ColumnStore(event) ==
    LET ep == event.EventParams
        up == event.UserParams
        it == event.Items
    IN
    [id |-> event.ID, name |-> event.Name, channel_type |-> event.ChannelType,
     user_id |-> event.UserID, date |-> Format(event.Date),
     timestamp |-> event.Timestamp, previous_timestamp |-> event.PreviousTimestamp,
     event_param_keys           |-> [i \in 1..Len(ep) |-> ep[i].Key],
     event_param_string_values  |-> [i \in 1..Len(ep) |-> ep[i].StringValue],
     event_param_number_values  |-> [i \in 1..Len(ep) |-> ep[i].NumberValue],
     event_param_boolean_values |-> [i \in 1..Len(ep) |-> boolToUInt8(ep[i].BooleanValue)],
     user_param_keys            |-> [i \in 1..Len(up) |-> up[i].Key],
     user_param_string_values   |-> [i \in 1..Len(up) |-> up[i].StringValue],
     user_param_number_values   |-> [i \in 1..Len(up) |-> up[i].NumberValue],
     user_param_boolean_values  |-> [i \in 1..Len(up) |-> boolToUInt8(up[i].BooleanValue)],
     item_ids             |-> [i \in 1..Len(it) |-> it[i].ID],
     item_names           |-> [i \in 1..Len(it) |-> it[i].Name],
     item_brands          |-> [i \in 1..Len(it) |-> it[i].Brand],
     item_variants        |-> [i \in 1..Len(it) |-> it[i].Variant],
     item_prices_in_usd   |-> [i \in 1..Len(it) |-> it[i].PriceInUsd],
     item_quantities      |-> [i \in 1..Len(it) |-> int32(it[i].Quantity)],
     item_revenues_in_usd |-> [i \in 1..Len(it) |-> it[i].RevenueInUsd]]

\* EventRepository.Save(ctx, event), either adapter: toModel, then one INSERT
Save(event) ==
    /\ Len(saved) < MaxSaved
    /\ saved' = Append(saved,
                  [event |-> event,
                   row |-> IF adapter = "postgres" THEN toModel_RowStore(event)
                                                   ELSE toModel_ColumnStore(event)])
    /\ rows' = rows \cup {toModel(event)}
    /\ UNCHANGED <<adapter, nextId, issued, w, rd, migVars, main, script>>

\* dto.CreateEventRequest: Timestamp and PreviousTimestamp are int64, an
\* item's Quantity is an int
Requests ==
    [Name : {"page_view"}, ChannelType : {"web"}, UserID : {"u1"},
     Timestamp : {5, 65541, -1}, PreviousTimestamp : {0, 65536},
     Quantity : [hi : {0, 1}, lo : {1}]]

\* CreateEventRequest.ToCommand: every field is copied, the widths stay
ToCommand(req) ==
    [Name |-> req.Name, ChannelType |-> req.ChannelType, UserID |-> req.UserID,
     Timestamp |-> req.Timestamp, PreviousTimestamp |-> req.PreviousTimestamp,
     Items |-> <<[Quantity |-> req.Quantity]>>]

\* a value held in a uint16 field
uint16(v) == v % 65536

\* CreateEventCommand.ToEvent(id) with all the fields of domain.Event, whose
\* Timestamp and PreviousTimestamp are uint16
ToEventFull(cmd, id) ==
    [ID |-> id, Name |-> cmd.Name, ChannelType |-> cmd.ChannelType, UserID |-> cmd.UserID,
     Date |-> [day |-> 1, hour |-> 0, nsec |-> 0], nan |-> FALSE,
     Timestamp |-> uint16(cmd.Timestamp),
     PreviousTimestamp |-> uint16(cmd.PreviousTimestamp),
     EventParams |-> <<>>, UserParams |-> <<>>,
     Items |-> [i \in 1..Len(cmd.Items) |->
                   [Item("shoe", 0, "", <<>>) EXCEPT !.Quantity = cmd.Items[i].Quantity]]]

\* EventHandler.CreateEvent: bind the request, ToCommand, EventService.CreateEvent
\* (uuid.New, ToEvent, repo.Save with the adapter's toModel and one INSERT)
HandleCreateEvent(req) ==
    /\ Len(saved) < MaxSaved /\ nextId <= MaxIds
    /\ LET event == ToEventFull(ToCommand(req), nextId) IN
         /\ saved' = Append(saved,
                       [request |-> req, event |-> event,
                        row |-> IF adapter = "postgres" THEN toModel_RowStore(event)
                                                        ELSE toModel_ColumnStore(event)])
         /\ rows' = rows \cup {toModel(event)}
    /\ nextId' = nextId + 1
    /\ issued' = Append(issued, nextId)
    /\ UNCHANGED <<adapter, w, rd, migVars, main, script>>

(***************************************************************************)
(* main().  main is the process:                                           *)
(*   pc      "start" | "check" | "migrator" | "migrate" | "run" |          *)
(*           "serving" | "exited"  (logger.Fatal ends in os.Exit)          *)
(*   dbType  cfg.DatabaseType                                              *)
(*   checked the outcome of CheckConnection, up that of migrator.Up:       *)
(*           "none" | "ok" | "err"                                         *)
(*   eventRepository, metricsReader: the store of the adapter assigned to  *)
(*           the variable of that name, "none" before                      *)
(***************************************************************************)
DatabaseTypes == {"postgres", "clickhouse", "mysql"}

MainStart(db) ==
    [pc |-> "start", dbType |-> db, checked |-> "none", up |-> "none",
     eventRepository |-> "none", metricsReader |-> "none"]

Exit(m) == [m EXCEPT !.pc = "exited"]

\* "switch cfg.DatabaseType"
MainSwitch ==
    /\ main.pc = "start"
    /\ main' = IF main.dbType \in {"postgres", "clickhouse"}
               THEN [main EXCEPT !.pc = "check"]
               ELSE Exit(main)
    /\ UNCHANGED <<migVars, storeVars, script>>

\* faulty variant: the error of CheckConnection is logged, main goes on
MainCheckConnection_IgnoreError ==
    /\ main.pc = "check"
    /\ \E ok \in BOOLEAN :
         LET m == [main EXCEPT !.checked = IF ok THEN "ok" ELSE "err"] IN
         IF main.dbType = "postgres"
         THEN /\ main' = [m EXCEPT !.pc = "run", !.eventRepository = "postgres",
                                   !.metricsReader = "postgres"]
              /\ adapter' = "postgres"
         ELSE /\ main' = [m EXCEPT !.pc = "migrator"]
              /\ UNCHANGED adapter
    /\ UNCHANGED <<migVars, rows, nextId, issued, w, rd, saved, script>>

\* db.CheckConnection(); the row store's pair is built right after it
MainCheckConnection ==
    /\ main.pc = "check"
    /\ \E ok \in BOOLEAN :
         IF ~ok
         THEN /\ main' = Exit([main EXCEPT !.checked = "err"])
              /\ UNCHANGED adapter
         ELSE IF main.dbType = "postgres"
         THEN /\ main' = [main EXCEPT !.checked = "ok", !.pc = "run",
                                      !.eventRepository = "postgres",
                                      !.metricsReader = "postgres"]
              /\ adapter' = "postgres"
         ELSE /\ main' = [main EXCEPT !.checked = "ok", !.pc = "migrator"]
              /\ UNCHANGED adapter
    /\ UNCHANGED <<migVars, rows, nextId, issued, w, rd, saved, script>>

\* clickhouse.NewMigrator(db, MigrationFS), then the call of migrator.Up
MainNewMigrator ==
    /\ main.pc = "migrator"
    /\ \E ok \in BOOLEAN :
         IF ok
         THEN /\ main' = [main EXCEPT !.pc = "migrate"]
              /\ mig' = [mig EXCEPT !["m1"] = [IdleCall EXCEPT !.op = "Up", !.pc = "ensure",
                                                                !.ledger0 = Live(ledger)]]
         ELSE /\ main' = Exit(main)
              /\ UNCHANGED mig
    /\ UNCHANGED <<migrations, tableExists, ledger, storeExecuted, prev, storeVars, script>>

\* migrator.Up has returned; the column store's pair is built after a nil error
MainMigrated ==
    /\ main.pc = "migrate" /\ mig["m1"].pc = "done"
    /\ prev' = [prev EXCEPT !["m1"] = [op |-> "Up", result |-> mig["m1"].result]]
    /\ mig' = [mig EXCEPT !["m1"] = IdleCall]
    /\ IF mig["m1"].result = "ok"
       THEN /\ main' = [main EXCEPT !.up = "ok", !.pc = "run",
                                    !.eventRepository = "clickhouse",
                                    !.metricsReader = "clickhouse"]
            /\ adapter' = "clickhouse"
       ELSE /\ main' = Exit([main EXCEPT !.up = "err"])
            /\ UNCHANGED adapter
    /\ UNCHANGED <<migrations, tableExists, ledger, storeExecuted,
                   rows, nextId, issued, w, rd, saved, script>>

\* the service and the routes are built, api.Run(addr) listens or fails
MainRun ==
    /\ main.pc = "run"
    /\ \E ok \in BOOLEAN :
         main' = IF ok THEN [main EXCEPT !.pc = "serving"] ELSE Exit(main)
    /\ UNCHANGED <<migVars, storeVars, script>>

\* the routes exist once api.Run serves
Serving == main.pc = "serving"

(***************************************************************************)
(* Specifications.                                                         *)
(***************************************************************************)
\* main() with a supported cfg.DatabaseType after "Starting server": the store
\* was reachable, the column store's migrations have run, the pair is wired
Wired(db) ==
    [pc |-> "serving", dbType |-> db, checked |-> "ok",
     up |-> IF db = "clickhouse" THEN "ok" ELSE "none",
     eventRepository |-> db, metricsReader |-> db]

MigInit ==
    /\ migrations \in { loadMigrations(mm) : mm \in MigrationMaps }
    /\ tableExists = FALSE
    /\ ledger = <<>>
    /\ storeExecuted = {}
    /\ mig = [p \in Procs |-> IdleCall]
    /\ prev = [p \in Procs |-> [op |-> "none", result |-> "none"]]

\* main(): the adapter pair is selected once from cfg.DatabaseType
StoreInit ==
    /\ adapter \in {"postgres", "clickhouse"}
    /\ rows = {}
    /\ nextId = 1
    /\ issued = <<>>
    /\ w = IdleW
    /\ rd = IdleR
    /\ saved = <<>>
    /\ main = Wired(adapter)
    /\ script = NoScript

\* one migrator process; the store applies a ledger delete before the ledger
\* is read again (what the pause after removeMigrationRecord waits for)
MigStep(p) ==
    \/ \E op \in Ops : Call(p, op)
    \/ ensureMigrationTable(p)
    \/ (~MutationPending /\ getAppliedMigrations(p))
    \/ UpNext(p)
    \/ ExecStatement(p)
    \/ recordMigration(p)
    \/ DownFind(p)
    \/ DownAllNext(p)
    \/ removeMigrationRecord(p)
    \/ Sleep(p)
    \/ StatusBuild(p)
    \/ Return(p)

\* the migration runner against the column store, no event traffic
Init ==
    /\ MigInit
    /\ adapter = "clickhouse" /\ rows = {} /\ nextId = 1 /\ issued = <<>>
    /\ w = IdleW /\ rd = IdleR /\ saved = <<>>
    /\ main = Wired("clickhouse")
    /\ script = NoScript

Next == MigStep("m1") \/ MutationApplied

Spec == Init /\ [][Next]_vars

\* one migrator process; the store applies a ledger delete whenever it gets to
\* it, also after the pause is over and the ledger has been read again
MigStepAsync(p) ==
    \/ \E op \in Ops : Call(p, op)
    \/ ensureMigrationTable(p)
    \/ getAppliedMigrations(p)
    \/ UpNext(p)
    \/ ExecStatement(p)
    \/ recordMigration(p)
    \/ DownFind(p)
    \/ DownAllNext(p)
    \/ removeMigrationRecord(p)
    \/ Sleep(p)
    \/ StatusBuild(p)
    \/ Return(p)

NextAsync == MigStepAsync("m1") \/ MutationApplied

SpecAsync == Init /\ [][NextAsync]_vars

\* the steps of an Up() call of process p
MigStepUp(p) ==
    \/ Call(p, "Up")
    \/ ensureMigrationTable(p)
    \/ getAppliedMigrations(p)
    \/ UpNext(p)
    \/ ExecStatement(p)
    \/ recordMigration(p)
    \/ Return(p)

\* two process instances start together, each runs Up() against the same store
NextTwo == \E p \in Procs : MigStepUp(p)

SpecTwo == Init /\ [][NextTwo]_vars

\* write traffic against the selected store: a batch writer (CreateEvents /
\* SaveBatch) and concurrent single-event writers (CreateEvent)
InitStore ==
    /\ StoreInit
    /\ migrations = <<>> /\ tableExists = FALSE /\ ledger = <<>> /\ storeExecuted = {}
    /\ mig = [p \in Procs |-> IdleCall]
    /\ prev = [p \in Procs |-> [op |-> "none", result |-> "none"]]

NextStore ==
    \/ \E cmds \in CommandLists : CreateEvents(cmds)
    \/ \E cmds \in CommandLists : SaveBatch(cmds)
    \/ WriterGetDB
    \/ WriterBegin
    \/ WriterSetSchema
    \/ InsertPg
    \/ CommitPg
    \/ InsertCh
    \/ CommitCh
    \/ WriterReturn
    \/ \E cmd \in EventPool : CreateEvent(cmd)

SpecStore == InitStore /\ [][NextStore]_vars

\* a metrics reader concurrent with single-event writers
NextMetrics ==
    \/ \E cmd \in EventPool : CreateEvent(cmd)
    \/ \E query \in Queries : GetMetrics(query)
    \/ getGroupedMetrics
    \/ ReaderReturn

SpecMetrics == InitStore /\ [][NextMetrics]_vars

\* the commands and queries of the callers in SpecLog: one event that every
\* store accepts and one that the row store's toModel rejects
LogPool == { e \in EventPool : e.Date = [day |-> 1, hour |-> 0] }

LogCommandLists == UNION { [1..n -> LogPool] : n \in 0..MaxBatch }

LogQueries ==
    { q \in Queries : /\ q.EventName = "page_view"
                      /\ IsZero(q.From) /\ IsZero(q.To)
                      /\ q.Aggregation \in {"", "channel"} }

\* all port operations together: batch and single-event writers, a metrics
\* reader, and callers that cancel the ctx of a call in progress
NextLog ==
    \/ \E cmds \in LogCommandLists : CreateEvents(cmds)
    \/ \E cmds \in LogCommandLists : SaveBatch(cmds)
    \/ WriterGetDB
    \/ WriterBegin
    \/ WriterSetSchema
    \/ InsertPg
    \/ CommitPg
    \/ InsertCh
    \/ CommitCh
    \/ WriterReturn
    \/ \E cmd \in LogPool : CreateEvent(cmd)
    \/ \E query \in LogQueries : GetMetrics(query)
    \/ getGroupedMetrics
    \/ ReaderReturn
    \/ CancelWriter
    \/ CancelReader

SpecLog == InitStore /\ [][NextLog]_vars

\* callers of the port that save whole events, one after the other
NextSave == \E event \in FullEvents : Save(event)

SpecSave == InitStore /\ [][NextSave]_vars

\* the process from its start: the store is selected, checked and migrated,
\* then requests are served
InitMain ==
    /\ MigInit
    /\ adapter = "none" /\ rows = {} /\ nextId = 1 /\ issued = <<>>
    /\ w = IdleW /\ rd = IdleR /\ saved = <<>>
    /\ main \in { MainStart(db) : db \in DatabaseTypes }
    /\ script = NoScript

NextMain ==
    \/ MainSwitch
    \/ MainCheckConnection
    \/ MainNewMigrator
    \/ ensureMigrationTable("m1")
    \/ getAppliedMigrations("m1")
    \/ UpNext("m1")
    \/ ExecStatement("m1")
    \/ recordMigration("m1")
    \/ MainMigrated
    \/ MainRun
    \/ (Serving /\ \E cmd \in LogPool : CreateEvent(cmd))
    \/ (Serving /\ \E query \in LogQueries : GetMetrics(query))
    \/ (Serving /\ getGroupedMetrics)
    \/ (Serving /\ ReaderReturn)

SpecMain == InitMain /\ [][NextMain]_vars

\* splitStatements over the scripts of up to MaxLines lines
InitSplit ==
    /\ InitStore
    /\ adapter = "clickhouse"

NextSplit ==
    \/ \E line \in ScriptLines : WriteLine(line)
    \/ SplitScript

SpecSplit == InitSplit /\ [][NextSplit]_vars

\* clients post events, one after the other
NextRequest == \E req \in Requests : HandleCreateEvent(req)

SpecRequest == InitStore /\ [][NextRequest]_vars

(***************************************************************************)
(* Properties of the migration runner (specification Spec).                *)
(***************************************************************************)
M1 == "m1"

IsFailedExec(ev) == ev.kind = "exec" /\ ~ev.ok

\* the store calls a failure-free run of one up-script / down-script issues
UpEvents(m) ==
    LET st == Executable(splitStatements(m.UpSQL)) IN
    [k \in 1..Len(st) |-> ExecEvent(m.Version, st[k], TRUE)]
        \o <<LedgerEvent("record", m.Version, TRUE)>>

DownEvents(m) ==
    LET st == Executable(splitStatements(m.DownSQL)) IN
    [k \in 1..Len(st) |-> ExecEvent(m.Version, st[k], TRUE)]
        \o <<LedgerEvent("remove", m.Version, TRUE)>>

LedgerRow(m) == [version |-> m.Version, name |-> m.Name, deleting |-> FALSE]

\* pending: not in the ledger, non-empty up-script
Pending(m, l0) == m.Version \notin Versions(l0) /\ m.UpSQL # <<>>

\* the discovered migrations from the k-th on, in slice order, that are pending
RECURSIVE PendingFrom(_, _)
PendingFrom(k, l0) ==
    IF k > Len(migrations) THEN <<>>
    ELSE (IF Pending(migrations[k], l0) THEN <<migrations[k]>> ELSE <<>>)
             \o PendingFrom(k + 1, l0)

RECURSIVE Flatten(_)
Flatten(ss) == IF ss = <<>> THEN <<>> ELSE Head(ss) \o Flatten(Tail(ss))

\* index of the discovered migration with the highest version present in l0
Target(l0) ==
    CHOOSE k \in 1..Len(migrations) :
        /\ migrations[k].Version \in Versions(l0)
        /\ \A h \in 1..Len(migrations) :
               migrations[h].Version \in Versions(l0)
                   => ~LexLess(migrations[k].Version, migrations[h].Version)

C2_UpAbortsOnFailure ==
    \A p \in Procs :
        mig[p].op = "Up" =>
            \A k \in 1..Len(mig[p].trace) :
                IsFailedExec(mig[p].trace[k]) =>
                    /\ k = Len(mig[p].trace)
                    /\ mig[p].pc = "done" /\ mig[p].result = "err"
                    /\ mig[p].trace[k].version \notin Versions(ledger)
                    /\ \A h \in 1..(k - 1) :
                           mig[p].trace[h].kind = "exec" =>
                               /\ mig[p].trace[h].ok
                               /\ <<mig[p].trace[h].version, "up", mig[p].trace[h].stmt>>
                                      \in storeExecuted

\* the second statement of the first of two pending migrations has failed
C2_Witness ==
    /\ mig[M1].op = "Up" /\ mig[M1].pc = "done" /\ mig[M1].result = "err"
    /\ Len(mig[M1].trace) = 2
    /\ mig[M1].trace[1].kind = "exec" /\ mig[M1].trace[1].ok
    /\ IsFailedExec(mig[M1].trace[2])
    /\ mig[M1].trace[1].version = mig[M1].trace[2].version
    /\ Len(PendingFrom(1, mig[M1].ledger0)) >= 2

C9_WitnessNoDown ==
    /\ mig[M1].op = "Down" /\ mig[M1].pc = "done" /\ mig[M1].err = "no down migration"
    /\ Len(mig[M1].ledger0) = 2

BatchIds == { w.events[k].ID : k \in 1..Len(w.events) }

\* the batch's rows that are committed in the store
BatchRowsStored == { r \in rows : r.id \in BatchIds }

BatchRow(k) == toModel(w.events[k])

\* the positions in io of the inserts the call attempted
Execs == { k \in 1..Len(w.io) : w.io[k][1] = "exec" }

\* C4: row-store SaveBatch is all-or-nothing: when an insert or a model
\* conversion of the batch fails, SaveBatch returns an error and none of the
\* batch's events is in the store; when it returns success, all N are; and
\* while it runs, none is visible.
C4_RowStoreAllOrNothing ==
    (adapter = "postgres" /\ w.pc # "idle" /\ Len(w.events) > 0) =>
        /\ (\E k \in 1..Len(w.io) : w.io[k] \in {<<"exec", FALSE>>, <<"toModel", FALSE>>})
               => (w.pc = "done" /\ w.result = "err")
        /\ w.result = "err" => BatchRowsStored = {}
        /\ w.result = "none" => BatchRowsStored = {}
        /\ w.result = "ok"
               => BatchRowsStored = { BatchRow(k) : k \in 1..Len(w.events) }

\* the second insert of a batch of two failed after the first succeeded
C4_Witness ==
    /\ adapter = "postgres" /\ w.pc = "done" /\ w.result = "err"
    /\ Len(w.events) = 2
    /\ \E k \in 2..Len(w.io) : w.io[k - 1] = <<"exec", TRUE>> /\ w.io[k] = <<"exec", FALSE>>
    /\ BatchRowsStored = {}

\* a batch of two was committed
C4_WitnessOk ==
    /\ adapter = "postgres" /\ w.pc = "done" /\ w.result = "ok"
    /\ Len(w.events) = 2
    /\ Cardinality(BatchRowsStored) = 2

\* C5: column-store SaveBatch is non-atomic: when the k-th insert of the batch
\* fails, SaveBatch returns an error, attempts no insert after the k-th, and
\* exactly the first k-1 rows of the batch are committed in the store.
C5_ColumnStoreNonAtomic ==
    (adapter = "clickhouse" /\ w.pc # "idle") =>
        \A f \in Execs :
            ~w.io[f][2] =>
                LET k == Cardinality({ e \in Execs : e <= f }) IN
                /\ w.pc = "done" /\ w.result = "err"
                /\ \A e \in Execs : e <= f
                /\ \A e \in Execs : e < f => w.io[e][2]
                /\ BatchRowsStored = { BatchRow(h) : h \in 1..(k - 1) }

\* the second insert of a batch of two failed: the call returned an error and
\* a non-empty strict subset of the batch, its first row, is committed
C5_Witness ==
    /\ adapter = "clickhouse" /\ w.pc = "done" /\ w.result = "err"
    /\ Len(w.events) = 2
    /\ \E f \in Execs : ~w.io[f][2] /\ Cardinality(Execs) = 2
    /\ BatchRowsStored = {BatchRow(1)}

\* C6: SaveBatch with an empty list returns success without any interaction
\* with the store on both adapters, and CreateEvents with an empty command
\* list returns an empty ID list without calling the repository.
C6_EmptyBatch ==
    (w.pc # "idle" /\ Len(w.events) = 0) =>
        /\ w.pc = "done" /\ w.result = "ok"
        /\ w.io = <<>>
        /\ w.api = "CreateEvents" => (w.ids = <<>> /\ w.repoCalls = 0)

\* SaveBatch([]) has returned on the row store while the store holds rows
C6_Witness ==
    /\ w.api = "SaveBatch" /\ w.pc = "done" /\ Len(w.events) = 0
    /\ adapter = "postgres"
    /\ rows # {}

\* SaveBatch([]) has returned on the column store
C6_WitnessColumn ==
    /\ w.api = "SaveBatch" /\ w.pc = "done" /\ Len(w.events) = 0
    /\ adapter = "clickhouse"

\* CreateEvents([]) has returned
C6_WitnessService ==
    /\ w.api = "CreateEvents" /\ w.pc = "done" /\ Len(w.events) = 0

(***************************************************************************)
(* Properties of the metrics reader (specification SpecMetrics).           *)
(***************************************************************************)
RECURSIVE SumTotalCount(_)
SumTotalCount(groups) ==
    IF groups = <<>> THEN 0
    ELSE Head(groups).TotalCount + SumTotalCount(Tail(groups))

\* C7 as stated: every GetMetrics call with Aggregation set (to one of the
\* AggregationType values channel, daily, hourly) returns groups whose
\* TotalCount sum equals the ungrouped TotalCount, in every execution, also
\* when writes of other callers interleave with the call.
C7_Original ==
    (rd.pc = "done" /\ rd.result = "ok"
        /\ rd.query.Aggregation \in {"channel", "daily", "hourly"})
        => SumTotalCount(rd.GroupedMetrics) = rd.TotalCount

\* C7, amended: when the aggregation is channel, daily or hourly and no
\* write is committed between the call's totals query and its grouped query,
\* the groups' TotalCount sum equals the ungrouped TotalCount.
C7_SumOfGroups ==
    (rd.pc = "done" /\ rd.result = "ok"
        /\ rd.query.Aggregation \in {"channel", "daily", "hourly"}
        /\ rd.seenAtTotals = rd.seenAtGrouped)
        => SumTotalCount(rd.GroupedMetrics) = rd.TotalCount

\* a call returned two groups, one of them with several rows of one user
C7_Witness ==
    /\ rd.pc = "done" /\ rd.result = "ok"
    /\ rd.query.Aggregation \in {"channel", "daily", "hourly"}
    /\ rd.seenAtTotals = rd.seenAtGrouped
    /\ Len(rd.GroupedMetrics) >= 2
    /\ \E k \in 1..Len(rd.GroupedMetrics) :
           rd.GroupedMetrics[k].TotalCount > rd.GroupedMetrics[k].UniqueUserCount

(***************************************************************************)
(* Properties of DownAll and Status (specification Spec).                  *)
(***************************************************************************)
\* the discovered migrations present in l0, from the k-th down to the first
RECURSIVE AppliedDownFrom(_, _)
AppliedDownFrom(k, l0) ==
    IF k < 1 THEN <<>>
    ELSE (IF migrations[k].Version \in Versions(l0) THEN <<migrations[k]>> ELSE <<>>)
             \o AppliedDownFrom(k - 1, l0)

DiscoveredVersions == { migrations[k].Version : k \in 1..Len(migrations) }

C13_StatusPureRead ==
    [][\A p \in Procs :
          (mig[p].op = "Status" /\ mig'[p] # mig[p])
              => /\ tableExists' = tableExists
                 /\ ledger' = ledger
                 /\ storeExecuted' = storeExecuted]_vars

(***************************************************************************)
(* Properties of GetMetrics (specification SpecMetrics).                   *)
(***************************************************************************)
\* the Aggregation values of a MetricsQuery: absent, by channel, by day, by hour
Supported == {"channel", "daily", "hourly"}

Issued(what) == \E k \in 1..Len(rd.io) : rd.io[k][1] = what

Failed(what) == \E k \in 1..Len(rd.io) : rd.io[k] = <<what, FALSE>>

\* C14: every GetMetrics call issues the totals query, first; a call whose
\* totals query succeeded issues the grouped query exactly when Aggregation
\* is set; with Aggregation absent no grouped query runs, GroupedMetrics is
\* empty and the call returns after the totals.
C14_QueriesIssued ==
    rd.pc # "idle" =>
        /\ rd.io # <<>> /\ rd.io[1][1] = "totals"
        /\ Len(rd.io) <= 2
        /\ (rd.pc = "done" /\ ~Failed("totals") /\ rd.query.Aggregation \in Supported)
               => (Issued("grouped") /\ rd.groupedRan)
        /\ rd.query.Aggregation = ""
               => /\ ~Issued("grouped") /\ ~rd.groupedRan
                  /\ rd.GroupedMetrics = <<>>
                  /\ rd.pc = "done"
                  /\ (rd.result = "ok" <=> ~Failed("totals"))

\* a call with Aggregation set has issued both queries and returned groups
C14_Witness ==
    /\ rd.pc = "done" /\ rd.result = "ok"
    /\ rd.query.Aggregation \in Supported
    /\ rd.io = << <<"totals", TRUE>>, <<"grouped", TRUE>> >>
    /\ rd.GroupedMetrics # <<>>

\* a call without Aggregation returned non-zero totals from the totals query alone
C14_WitnessAbsent ==
    /\ rd.pc = "done" /\ rd.result = "ok"
    /\ rd.query.Aggregation = ""
    /\ rd.io = << <<"totals", TRUE>> >>
    /\ rd.TotalCount > 0

\* From is later than To (time.Time order; the zero time is the earliest)
FromAfterTo(query) == ~TimeLE(query.From, query.To)

ZeroResult ==
    /\ rd.result = "ok"
    /\ rd.TotalCount = 0 /\ rd.UniqueUserCount = 0
    /\ rd.GroupedMetrics = <<>>

\* C15 as stated: GetMetrics with a non-zero From later than To returns
\* success with zero counts and no grouped rows, whatever the store holds.
C15_Original ==
    (rd.pc = "done" /\ ~IsZero(rd.query.From) /\ FromAfterTo(rd.query)
        /\ ~Failed("totals") /\ ~Failed("grouped"))
        => ZeroResult

\* C15, amended: GetMetrics with a non-zero To and a From later than it
\* returns zero counts and no grouped rows, for every store content and
\* every Aggregation value, and returns an error only when a query failed.
C15_FromAfterTo ==
    (rd.pc = "done" /\ ~IsZero(rd.query.To) /\ FromAfterTo(rd.query)) =>
        /\ (rd.result = "err" <=> (Failed("totals") \/ Failed("grouped")))
        /\ rd.result = "ok" => ZeroResult

\* such a call returned while the store holds rows of that name, one of them
\* on or after From
C15_Witness ==
    /\ rd.pc = "done" /\ rd.result = "ok"
    /\ ~IsZero(rd.query.To) /\ FromAfterTo(rd.query)
    /\ rd.query.Aggregation \in Supported
    /\ rd.groupedRan
    /\ \E r \in rows : r.name = rd.query.EventName /\ TimeLE(rd.query.From, r.date)
    /\ rd.seenAtTotals = Cardinality(rows)

\* the store holds exactly the two events of the scenario and a
\* GetMetrics(page_view, group by channel) over them has returned
Scenario ==
    /\ rd.pc = "done" /\ rd.result = "ok"
    /\ rd.query.EventName = "page_view" /\ rd.query.Aggregation = "channel"
    /\ IsZero(rd.query.From) /\ IsZero(rd.query.To)
    /\ Cardinality(rows) = 2
    /\ { <<r.name, r.channel_type, r.user_id>> : r \in rows }
           = { <<"page_view", "web", "u1">>, <<"page_view", "mobile", "u2">> }
    /\ rd.seenAtTotals = 2 /\ rd.seenAtGrouped = 2

Group(key, total, unique) ==
    [GroupKey |-> key, TotalCount |-> total, UniqueUserCount |-> unique]

C16_WitnessColumn == Scenario /\ adapter = "clickhouse"

(***************************************************************************)
(* Properties of the issued IDs (specification SpecStore).                 *)
(***************************************************************************)
\* C17: every ID issued by CreateEvent or CreateEvents differs from every ID
\* issued earlier in the run, within one batch and across calls that
\* interleave; CreateEvents holds one ID per command, ids[i] being the ID of
\* the event built from cmds[i]; no two committed rows share an ID.
C17_IdsUnique ==
    /\ \A i, j \in 1..Len(issued) : i # j => issued[i] # issued[j]
    /\ \A r1, r2 \in rows : r1.id = r2.id => r1 = r2
    /\ w.api = "CreateEvents" =>
           /\ Len(w.ids) = Len(w.cmds)
           /\ Len(w.events) = Len(w.cmds)
           /\ \A k \in 1..Len(w.cmds) : w.events[k] = ToEvent(w.cmds[k], w.ids[k])
           /\ \A k \in 1..Len(w.ids) : \E i \in 1..Len(issued) : issued[i] = w.ids[k]

\* CreateEvents has returned the two IDs of a committed batch after a
\* CreateEvent of another caller was issued an ID while the batch was running
C17_Witness ==
    /\ w.api = "CreateEvents" /\ w.pc = "done" /\ w.result = "ok"
    /\ Len(w.ids) = 2
    /\ Len(issued) = 3
    /\ \E i \in 1..Len(issued) : issued[i] \notin BatchIds /\ issued[i] > w.ids[1]

(***************************************************************************)
(* Properties of all port operations together (specification SpecLog).     *)
(***************************************************************************)
\* C18: the event store is append-only: no step of a Save, SaveBatch or
\* GetMetrics call removes or alters a committed row, and no step of
\* GetMetrics changes the rows at all.
C18_AppendOnly ==
    [][/\ rows \subseteq rows'
       /\ rd' # rd => rows' = rows]_vars

\* a batch and a single event are committed, a batch insert has failed and a
\* GetMetrics call has returned over the rows
C18_Witness ==
    /\ Cardinality(rows) >= 2
    /\ w.pc = "done" /\ w.result = "err" /\ w.rows0 # {}
    /\ \E k \in 1..Len(w.io) : w.io[k] = <<"exec", FALSE>>
    /\ rd.pc = "done" /\ rd.result = "ok" /\ rd.TotalCount >= 2

\* the store calls of the batch writer: BeginTxx, SET search_path, the inserts
StoreCalls == {"begin", "schema", "exec"}

\* C19: once the caller has cancelled the ctx it passed to a port operation,
\* the store call in flight is aborted: no store call of that operation
\* completes, the operation returns an error.
C19_CancelAborts ==
    [][/\ (w.cancelled /\ Len(w'.io) > Len(w.io)
              /\ w'.io[Len(w.io) + 1][1] \in StoreCalls)
           => (w'.pc = "done" /\ w'.result = "err")
       /\ (rd.cancelled /\ Len(rd'.io) > Len(rd.io))
           => (rd'.pc = "done" /\ rd'.result = "err")]_vars

(***************************************************************************)
(* Properties of the stored row (specification SpecSave).                  *)
(***************************************************************************)
\* C20: round trip: the stored row determines the Event exactly, so two saved
\* Events with equal rows are equal in every scalar field and in the content
\* and order of EventParams and Items, every field of each Param and Item
\* included.
C20_RowDeterminesEvent ==
    \A i, j \in 1..Len(saved) :
        saved[i].row = saved[j].row => saved[i].event = saved[j].event

(***************************************************************************)
(* Properties of repeated requests (specification SpecMetrics).            *)
(***************************************************************************)
\* the content of a stored event, its ID apart
Content(row) == [name |-> row.name, channel_type |-> row.channel_type,
                 user_id |-> row.user_id, date |-> row.date]

\* C21: duplicate events are handled idempotently: after the same creation
\* request was submitted twice the store holds a single event for it, so no
\* two stored rows have the same content.
C21_DuplicateStoredOnce ==
    \A r1, r2 \in rows : Content(r1) = Content(r2) => r1 = r2

(***************************************************************************)
(* Properties of the WHERE clause (specification SpecMetrics).             *)
(***************************************************************************)
\* the values a query binds: EventName, then From if present, then To if present
ExpectedArgs(query) ==
    <<query.EventName>>
        \o (IF IsZero(query.From) THEN <<>> ELSE <<query.From>>)
        \o (IF IsZero(query.To) THEN <<>> ELSE <<query.To>>)

\* the columns and comparisons of a query's predicates, in that order
ExpectedTests(query) ==
    <<<<"name", "=">>>>
        \o (IF IsZero(query.From) THEN <<>> ELSE <<<<"date", ">=">>>>)
        \o (IF IsZero(query.To) THEN <<>> ELSE <<<<"date", "<=">>>>)

\* the rows a query asks for
Matches(query) ==
    { r \in rows : /\ r.name = query.EventName
                   /\ IsZero(query.From) \/ TimeLE(query.From, r.date)
                   /\ IsZero(query.To) \/ TimeLE(r.date, query.To) }

\* C22: in the row-store GetMetrics the placeholders of the WHERE clause are
\* $1..$n in the order the predicates were appended, n is the number of bound
\* arguments, the i-th argument is the value for the predicate holding $i
\* (EventName, then From if present, then To if present), and the totals
\* query and the grouped query both select with that clause.
C22_Placeholders ==
    (adapter = "postgres" /\ rd.pc # "idle") =>
        LET n == Len(rd.where.preds) IN
        /\ rd.where.args = ExpectedArgs(rd.query)
        /\ n = Len(rd.where.args)
        /\ \A k \in 1..n :
              /\ rd.where.preds[k].ph = k
              /\ <<rd.where.preds[k].col, rd.where.preds[k].cmp>> = ExpectedTests(rd.query)[k]
        /\ (rd.io[1][2] /\ rd.result # "err" /\ Cardinality(rows) = rd.seenAtTotals)
              => rd.TotalCount = Cardinality(Matches(rd.query))
        /\ (rd.pc = "done" /\ rd.result = "ok" /\ rd.groupedRan
               /\ Cardinality(rows) = rd.seenAtGrouped)
              => /\ SumTotalCount(rd.GroupedMetrics) = Cardinality(Matches(rd.query))
                 /\ rd.GroupedMetrics =
                        GroupedQuery(rows, rd.where, rd.query.Aggregation)

\* a row-store GetMetrics with both bounds has run both queries over rows
\* that the bounds tell apart
C22_Witness ==
    /\ adapter = "postgres"
    /\ rd.pc = "done" /\ rd.result = "ok" /\ rd.groupedRan
    /\ ~IsZero(rd.query.From) /\ ~IsZero(rd.query.To)
    /\ Len(rd.where.preds) = 3
    /\ Cardinality(rows) = rd.seenAtGrouped
    /\ rd.TotalCount >= 1 /\ rd.TotalCount < Cardinality(rows)

\* the other three combinations of From and To have run as well
C22_WitnessOpen ==
    /\ adapter = "postgres" /\ rd.pc = "done" /\ rd.result = "ok"
    /\ IsZero(rd.query.From) # IsZero(rd.query.To)
    /\ Len(rd.where.preds) = 2

(***************************************************************************)
(* Properties of the grouped result (specification SpecMetrics).           *)
(***************************************************************************)
\* group key a sorts before group key b
KeyBefore(agg, a, b) ==
    CASE agg = "channel" -> ChannelRank(a) < ChannelRank(b)
      [] agg = "daily"   -> a < b
      [] OTHER           -> a.day < b.day \/ (a.day = b.day /\ a.hour < b.hour)

\* the filtered rows of the call in progress that fall in the group of key
InGroup(key) ==
    { r \in Matches(rd.query) : GroupValue(rd.query.Aggregation, r) = key }

\* C23: with Aggregation by-channel, by-day or by-hour, GroupedMetrics has
\* exactly one entry per group value occurring among the filtered rows, none
\* with TotalCount 0, in strictly ascending order of group key; an entry's
\* TotalCount is the number of filtered rows of its group, its
\* UniqueUserCount the number of distinct user_id values among them.
C23_GroupedMetrics ==
    (rd.pc = "done" /\ rd.result = "ok" /\ rd.groupedRan
        /\ Cardinality(rows) = rd.seenAtGrouped) =>
        LET groups == rd.GroupedMetrics
            agg    == rd.query.Aggregation
        IN  /\ { groups[k].GroupKey : k \in 1..Len(groups) }
                   = { GroupValue(agg, r) : r \in Matches(rd.query) }
            /\ \A i, j \in 1..Len(groups) :
                   i < j => KeyBefore(agg, groups[i].GroupKey, groups[j].GroupKey)
            /\ \A k \in 1..Len(groups) :
                   /\ groups[k].TotalCount >= 1
                   /\ groups[k].TotalCount = Cardinality(InGroup(groups[k].GroupKey))
                   /\ groups[k].UniqueUserCount
                          = Cardinality({ r.user_id : r \in InGroup(groups[k].GroupKey) })

\* a by-channel call has returned two groups, one of them holding two rows of
\* one user, while a row that the filter excludes is in the store
C23_Witness ==
    /\ rd.pc = "done" /\ rd.result = "ok" /\ rd.groupedRan
    /\ Cardinality(rows) = rd.seenAtGrouped
    /\ rd.query.Aggregation = "channel"
    /\ Len(rd.GroupedMetrics) = 2
    /\ \E k \in 1..2 : /\ rd.GroupedMetrics[k].TotalCount = 2
                       /\ rd.GroupedMetrics[k].UniqueUserCount = 1

(***************************************************************************)
(* Properties of the column-store row (specification SpecSave).            *)
(***************************************************************************)
\* the arrays a has one element per element of list, each made by f
Parallel(a, list, f(_)) ==
    /\ Len(a) = Len(list)
    /\ \A i \in 1..Len(list) : a[i] = f(list[i])

KeyOf(p) == p.Key
StringOf(p) == p.StringValue
NumberOf(p) == p.NumberValue
BitOf(p) == IF p.BooleanValue THEN 1 ELSE 0
ItemID(it) == it.ID
ItemName(it) == it.Name
ItemBrand(it) == it.Brand
ItemVariant(it) == it.Variant
ItemPrice(it) == it.PriceInUsd
ItemQuantity(it) == it.Quantity.lo
ItemRevenue(it) == it.RevenueInUsd

\* a stored Int32 read as a 64-bit integer
Widen(a) == [hi |-> 0, lo |-> a]

\* the arrays of the n-th saved row, item_quantities apart, against its event
Flattened(n) ==
    LET e == saved[n].event
        m == saved[n].row
    IN  /\ Parallel(m.event_param_keys, e.EventParams, KeyOf)
        /\ Parallel(m.event_param_string_values, e.EventParams, StringOf)
        /\ Parallel(m.event_param_number_values, e.EventParams, NumberOf)
        /\ Parallel(m.event_param_boolean_values, e.EventParams, BitOf)
        /\ Parallel(m.user_param_keys, e.UserParams, KeyOf)
        /\ Parallel(m.user_param_string_values, e.UserParams, StringOf)
        /\ Parallel(m.user_param_number_values, e.UserParams, NumberOf)
        /\ Parallel(m.user_param_boolean_values, e.UserParams, BitOf)
        /\ Parallel(m.item_ids, e.Items, ItemID)
        /\ Parallel(m.item_names, e.Items, ItemName)
        /\ Parallel(m.item_brands, e.Items, ItemBrand)
        /\ Parallel(m.item_variants, e.Items, ItemVariant)
        /\ Parallel(m.item_prices_in_usd, e.Items, ItemPrice)
        /\ Parallel(m.item_revenues_in_usd, e.Items, ItemRevenue)

ServesRequest == nextId' # nextId \/ rows' # rows \/ rd' # rd

\* C25: at process start one adapter pair, repository and metrics reader of
\* the same store, is selected from the configured database type and never
\* changes; no request is served before the connectivity check has succeeded
\* and, for the column store, before Migrator.Up() has returned success; a
\* failed check, a failed migration run or an unsupported database type ends
\* the process without any request served.
C25_Startup ==
    /\ [](Serving =>
            /\ adapter \in {"postgres", "clickhouse"}
            /\ main.dbType = adapter
            /\ main.eventRepository = adapter /\ main.metricsReader = adapter
            /\ main.checked = "ok"
            /\ adapter = "clickhouse" =>
                   main.up = "ok" /\ prev["m1"] = [op |-> "Up", result |-> "ok"])
    /\ []((main.checked = "err" \/ main.up = "err"
             \/ (main.dbType \notin {"postgres", "clickhouse"} /\ main.pc # "start"))
            => (main.pc = "exited" /\ issued = <<>> /\ rows = {} /\ rd = IdleR))
    /\ [][/\ ServesRequest => Serving
          /\ adapter # "none" =>
                 /\ adapter' = adapter
                 /\ main'.eventRepository = main.eventRepository
                 /\ main'.metricsReader = main.metricsReader
          /\ main.pc = "exited" => main' = main]_vars

\* the column store serves: two migrations were applied by Up at start, an
\* event is stored and a GetMetrics call has counted it
C25_Witness ==
    /\ Serving /\ adapter = "clickhouse"
    /\ Len(ledger) = 2
    /\ rows # {}
    /\ rd.pc = "done" /\ rd.result = "ok" /\ rd.TotalCount >= 1

(***************************************************************************)
(* Properties of splitStatements (specification SpecSplit).                *)
(***************************************************************************)
\* the lines of the script that are neither blank nor a -- comment line nor
\* part of a /* */ comment: lines k.. of ls, inside telling whether line k
\* follows an opening /* that is not closed yet
RECURSIVE CodeLines(_, _, _)
CodeLines(ls, k, inside) ==
    IF k > Len(ls) THEN <<>>
    ELSE LET t      == TrimSpace(ls[k])
             opens  == Contains(t, <<"/", "*">>)
             closes == Contains(t, <<"*", "/">>)
         IN  IF inside \/ opens
             THEN CodeLines(ls, k + 1, ~closes)
             ELSE IF t = <<>> \/ HasPrefix(t, <<"-", "-">>) \/ closes
             THEN CodeLines(ls, k + 1, FALSE)
             ELSE <<t>> \o CodeLines(ls, k + 1, FALSE)

\* a line without the semicolon that ends it
Bare(line) == TrimSpace(TrimSuffix(TrimSpace(line), <<";">>))

\* the lines of the returned statements, in order
RECURSIVE StatementLines(_, _)
StatementLines(st, k) ==
    IF k > Len(st) THEN <<>>
    ELSE SplitLines(st[k], 1, <<>>) \o StatementLines(st, k + 1)

\* C26: splitStatements returns the statements in file order, one per
\* semicolon boundary, none empty and none ending with a semicolon; no
\* statement contains a blank line, a -- comment line or text between /* and
\* */; every line of the script that is neither blank nor comment is in
\* exactly one statement; a trailing statement without a semicolon is
\* returned last.
C26_SplitStatements ==
    script.split =>
        LET st    == script.statements
            code  == CodeLines(SplitLines(script.sql, 1, <<>>), 1, FALSE)
            lines == StatementLines(st, 1)
        IN  /\ \A k \in 1..Len(st) :
                  /\ st[k] # <<>>
                  /\ ~HasSuffix(st[k], <<";">>)
                  /\ ~Contains(st[k], <<";">>)
            /\ \A i \in 1..Len(lines) :
                  /\ TrimSpace(lines[i]) # <<>>
                  /\ ~HasPrefix(TrimSpace(lines[i]), <<"-", "-">>)
                  /\ ~Contains(lines[i], <<"/", "*">>)
                  /\ ~Contains(lines[i], <<"*", "/">>)
            /\ [i \in 1..Len(lines) |-> Bare(lines[i])]
                   = [i \in 1..Len(code) |-> Bare(code[i])]

(***************************************************************************)
(* Properties of the numeric fields (specification SpecRequest).           *)
(***************************************************************************)
\* the Quantity the n-th stored row holds for its item, as a 64-bit integer
StoredQuantity(n) ==
    IF adapter = "clickhouse"
    THEN Widen(saved[n].row.item_quantities[1])
    ELSE saved[n].row.items[1][6][2]

\* C27: Timestamp and PreviousTimestamp reach the persisted row with exactly
\* the value the client supplied, for every 64-bit value accepted in the
\* request, and each Item's Quantity is stored with its supplied value: no
\* layer between the request and the stored model truncates or wraps them.
C27_NumbersExact ==
    \A n \in 1..Len(saved) :
        /\ saved[n].row.timestamp = saved[n].request.Timestamp
        /\ saved[n].row.previous_timestamp = saved[n].request.PreviousTimestamp
        /\ StoredQuantity(n) = saved[n].request.Quantity

(***************************************************************************)
(* Properties of the ledger writes (specification Spec).                   *)
(***************************************************************************)
\* the successful executions of all statements of m's up-script, in order
UpExecs(m) == SubSeq(UpEvents(m), 1, Len(UpEvents(m)) - 1)

\* the last n events of a trace
LastEvents(tr, n) == SubSeq(tr, Len(tr) - n + 1, Len(tr))

\* C28: whatever Up(), Down() and DownAll() calls ran before and whichever
\* statements failed, a ledger row for migration M is written only by an
\* Up() call in which every statement of M's up-script has just executed
\* successfully, and never for a migration whose up-script is empty.
C28_RecordAfterStatements ==
    [][Len(ledger') > Len(ledger) =>
          /\ mig[M1].op = "Up"
          /\ Len(ledger') = Len(ledger) + 1
          /\ \E k \in 1..Len(migrations) :
                /\ migrations[k].Version = ledger'[Len(ledger')].version
                /\ migrations[k].UpSQL # <<>>
                /\ Len(UpExecs(migrations[k])) <= Len(mig[M1].trace)
                /\ LastEvents(mig[M1].trace, Len(UpExecs(migrations[k])))
                       = UpExecs(migrations[k])]_vars

\* after an Up() that failed, an Up() has recorded a migration of two
\* statements and has skipped one without an up-script
C28_Witness ==
    /\ prev[M1] = [op |-> "Up", result |-> "err"]
    /\ mig[M1].op = "Up" /\ mig[M1].pc = "done" /\ mig[M1].result = "ok"
    /\ \E k \in 1..Len(migrations) :
          /\ migrations[k].UpSQL = <<>>
          /\ migrations[k].Version \notin Versions(ledger)
    /\ \E k \in 1..Len(migrations) :
          /\ Len(UpExecs(migrations[k])) = 2
          /\ migrations[k].Version \in Versions(ledger)
          /\ Len(mig[M1].trace) = 3

(***************************************************************************)
(* Properties of the ledger delete (specification SpecAsync).              *)
(***************************************************************************)
\* the call in progress has read the ledger
HasRead(c) == c.pc \notin {"idle", "ensure", "read"} /\ c.err \notin {"ensure", "read"}

\* C29: once Down() or DownAll() has returned success, the next call's ledger
\* read observes the removed rows as absent, however long the store takes to
\* apply the asynchronous delete: what Status(), Up() or Down() read is the
\* ledger without the rows removed so far.
C29_DeleteVisible ==
    (prev[M1].op \in {"Down", "DownAll"} /\ prev[M1].result = "ok" /\ HasRead(mig[M1]))
        => mig[M1].applied = Versions(mig[M1].ledger0)

(***************************************************************************)
(* Properties of concurrent Up() calls (specification SpecTwo).            *)
(***************************************************************************)
\* the migration versions of which call c has executed a statement
ExecutedBy(c) ==
    { c.trace[k].version : k \in { h \in 1..Len(c.trace) :
                                      c.trace[h].kind = "exec" /\ c.trace[h].ok } }

\* C30: when two Up() calls run concurrently against the same store, under
\* every interleaving each migration's up-script statements are executed at
\* most once in total and each version is recorded in the ledger at most
\* once.
C30_ConcurrentUp ==
    /\ \A i, j \in 1..Len(ledger) : ledger[i].version = ledger[j].version => i = j
    /\ ExecutedBy(mig["m1"]) \cap ExecutedBy(mig["m2"]) = {}

====
